---------------------------- MODULE Spec2Model ----------------------------
(***************************************************************************)
(* Coordination layer of serviced: the versioned entity store of package   *)
(* zzk (LoadAndUpdate helpers over a ZooKeeper connection) and the         *)
(* listener framework (Ready barrier, Listen loop).                        *)
(*                                                                         *)
(* The module holds several specifications over one set of variables:      *)
(*   SpecLAU     two LoadAndUpdate callers and an outside writer           *)
(*   SpecListen  one Listen call, its workers and the store's environment  *)
(*   SpecListenFair  SpecListen with the scheduler's fairness              *)
(*   SpecStart   Start with a master and dependent listeners               *)
(*   SpecStartFair   SpecStart with the scheduler's fairness               *)
(*   SpecRemove  RemoveService, a scheduler and an outside writer          *)
(*   SpecSnap    ControlPlaneDao.Snapshot, a fulfiller and a clock         *)
(*   SpecShadow  AddServiceState / RemoveServiceState and the shadow node  *)
(*   SpecSnapState  the snapshot-state node and its operations             *)
(*   SpecPaths   the path functions over identifiers                       *)
(*   SpecUpdate  ZkDao.UpdateServiceState, UpdateService, other writers    *)
(* A specification leaves the variables of the other parts unchanged.      *)
(***************************************************************************)
EXTENDS Integers, Sequences, FiniteSets, TLC

VARIABLES
    \* ---- versioned entity store (package zzk, go-zookeeper connection)
    zk,          \* store path -> node [exists, data, version]
    lau,         \* caller -> frame of its LoadAndUpdate call
    extWritten,  \* path -> number of Sets by an outside writer (observation)
    overlap,     \* TRUE once both callers were inside a call at the same time
    \* ---- listener framework (zzk.go)
    tree,        \* set of paths that exist in the coordination store
    connOk,      \* FALSE once the connection to the store is lost
    shutdown,    \* Listen's shutdown channel is closed
    pc,          \* Listen's position
    rstack,      \* frames of the recursive Ready calls, innermost last
    readyErr,    \* value returned by the outermost Ready
    watch,       \* the children watch Listen currently selects on
    ready,       \* Listen's ready channel [closed, buf]
    ishutdown,   \* Listen's internal _shutdown channel is closed
    processing,  \* Listen's tracked set
    workers,     \* child -> [running, sending]: Spawn goroutines
    obs,         \* observations of the Listen call (counters, exit cause);
                 \* obs.ever: the nodes of the listener's path created so far
    \* ---- Start (zzk.go)
    start,       \* Start's frame: position, channels, WaitGroup
    lis,         \* listener -> its Listen call: position, workers, path state
    sobs,        \* observations of the Start call
    \* ---- RemoveService (package zzk over go-zookeeper)
    rm,          \* RemoveService's frame
    \* ---- ControlPlaneDao.Snapshot
    snap,        \* Snapshot's frame and its clock
    req,         \* the snapshot request node
    \* ---- entity operations of package zzk (ServiceState and its shadow,
    \*      snapshot state, path functions)
    ent,         \* caller -> frame of its AddServiceState / RemoveServiceState call
    snode,       \* the snapshot-state node and the frame of the call on it
    pf           \* identifiers given to the path functions

storeVars == <<zk, lau, extWritten, overlap>>
listenVars == <<tree, connOk, shutdown, pc, rstack, readyErr, watch, ready,
                ishutdown, processing, workers, obs>>
startVars == <<start, lis, sobs>>
removeVars == <<rm>>
snapVars == <<snap, req>>
daoVars == <<ent, snode, pf>>
vars == <<zk, lau, extWritten, overlap, tree, connOk, shutdown, pc, rstack,
          readyErr, watch, ready, ishutdown, processing, workers, obs,
          start, lis, sobs, rm, snap, req, ent, snode, pf>>

-----------------------------------------------------------------------------
(* Bounds *)

\* Sets by outside writers
MaxExtWrites == 1
\* the Spawn counter per child saturates here
MaxSpawn == 2

\* time.After(30 * time.Second) of RemoveService, in seconds
DrainWait == 30
\* timeOutValue and the Sleep of Snapshot, in seconds
SnapshotCeiling == 60
PollInterval == 1
\* dependent listeners passed to Start
MaxListeners == 2
\* writes of the fulfiller into a snapshot request
MaxFulfill == 1
\* calls of the entity operations in one behaviour
MaxOps == 2
\* characters of an identifier given to a path function
MaxIdLen == 3

-----------------------------------------------------------------------------
(* Entities and their serialisation *)

SVC_RUN == 1
SVC_STOP == 0

ServiceIds == {<<"s">>}
HostIds == {<<"h">>}
StateIds == {<<"x">>}

SERVICE_PATH == <<"service">>
SCHEDULER_PATH == <<"scheduler">>

HostPath(hostId) == SCHEDULER_PATH \o <<"/">> \o hostId

ServicePath(serviceId) == SERVICE_PATH \o <<"/">> \o serviceId

ServiceStatePath(serviceId, serviceStateId) ==
    SERVICE_PATH \o <<"/">> \o serviceId \o <<"/">> \o serviceStateId

HostServiceStatePath(hostId, serviceStateId) ==
    SCHEDULER_PATH \o <<"/">> \o hostId \o <<"/">> \o serviceStateId

\* dao.Service, dao.ServiceState, HostServiceState: the fields the mutators touch
Service(id, desired) == [Id |-> id, DesiredState |-> desired]
ServiceState(id, serviceId, hostId, terminated) ==
    [Id |-> id, ServiceId |-> serviceId, HostId |-> hostId, Terminated |-> terminated]
HostServiceState(hostId, serviceId, ssId, desired) ==
    [HostId |-> hostId, ServiceId |-> serviceId, ServiceStateId |-> ssId,
     DesiredState |-> desired]

\* json.Marshal / json.Unmarshal: bytes are tagged; bytes that are no JSON
\* document of the entity do not unmarshal
Marshal(v) == <<"json", v>>
Garbage == <<"garbage">>
UnmarshalOk(b) == b[1] = "json"
Unmarshal(b) == b[2]

\* The mutator closures of the source, and other closures a caller may pass
\*   "stop"   s.DesiredState = SVC_STOP / hss.DesiredState = SVC_STOP
\*   "run"    DesiredState = SVC_RUN
\*   "term1", "term2"  ss.Terminated = time.Now() at two different times
ServiceMutators == {"stop", "run"}
HssMutators == {"stop", "run"}
SsMutators == {"term1", "term2"}

\* Mutant: the STOP closure also clears the host of the entity
MutateStopClearsHost(m, v) ==
    CASE m = "stop" -> IF "HostId" \in DOMAIN v
                       THEN [v EXCEPT !.DesiredState = SVC_STOP, !.HostId = <<>>]
                       ELSE [v EXCEPT !.DesiredState = SVC_STOP]
      [] m = "run" -> [v EXCEPT !.DesiredState = SVC_RUN]
      [] m = "term1" -> [v EXCEPT !.Terminated = 1]
      [] m = "term2" -> [v EXCEPT !.Terminated = 2]
Mutate(m, v) ==
    CASE m = "stop" -> [v EXCEPT !.DesiredState = SVC_STOP]
      [] m = "run" -> [v EXCEPT !.DesiredState = SVC_RUN]
      [] m = "term1" -> [v EXCEPT !.Terminated = 1]
      [] m = "term2" -> [v EXCEPT !.Terminated = 2]

-----------------------------------------------------------------------------
(* The store: zk.Conn Get / Set *)

StorePaths ==
    {ServicePath(s) : s \in ServiceIds}
    \cup {ServiceStatePath(s, x) : s \in ServiceIds, x \in StateIds}
    \cup {HostServiceStatePath(h, x) : h \in HostIds, x \in StateIds}

NoNode == [exists |-> FALSE, data |-> Garbage, version |-> 0]
Node(b) == [exists |-> TRUE, data |-> b, version |-> 0]

\* conn.Get: the bytes and the version, or ErrNoNode
ZkGetErr(path) == IF zk[path].exists THEN "nil" ELSE "ErrNoNode"

\* conn.Set(path, bytes, version): conditioned on the version
ZkSetErr(path, version) ==
    IF ~zk[path].exists THEN "ErrNoNode"
    ELSE IF zk[path].version # version THEN "ErrBadVersion"
    ELSE "nil"

ZkSet(path, b, version) ==
    IF ZkSetErr(path, version) = "nil"
    THEN [zk EXCEPT ![path] = [exists |-> TRUE, data |-> b, version |-> version + 1]]
    ELSE zk

-----------------------------------------------------------------------------
(* LoadAndUpdate: two callers *)

Callers == {"p", "q"}

IdleFrame == [at |-> "idle", fn |-> "none", path |-> <<>>, mutator |-> "none",
              version |-> 0, read |-> Garbage, bytes |-> Garbage, err |-> "nil",
              gets |-> 0, sets |-> 0]

InFlight(c) == lau[c].at \in {"get", "set"}

\* A caller enters one of the three functions
Call(c, fn, path, mutator) ==
    /\ lau[c].at = "idle"
    /\ lau' = [lau EXCEPT ![c] = [IdleFrame EXCEPT !.at = "get", !.fn = fn,
                                    !.path = path, !.mutator = mutator]]
    /\ overlap' = (overlap \/ \E d \in Callers \ {c} : InFlight(d))
    /\ UNCHANGED <<zk, extWritten>>

CallLoadAndUpdateServiceState(c) ==
    \E s \in ServiceIds, x \in StateIds, m \in SsMutators :
        Call(c, "LoadAndUpdateServiceState", ServiceStatePath(s, x), m)

CallLoadAndUpdateService(c) ==
    \E s \in ServiceIds, m \in ServiceMutators :
        Call(c, "loadAndUpdateService", ServicePath(s), m)

CallLoadAndUpdateHss(c) ==
    \E h \in HostIds, x \in StateIds, m \in HssMutators :
        Call(c, "loadAndUpdateHss", HostServiceStatePath(h, x), m)

\* TerminateHostService lines 29-33: loadAndUpdateHss with the closure
\* hss.DesiredState = SVC_STOP
TerminateHostService(c) ==
    \E h \in HostIds, x \in StateIds :
        Call(c, "loadAndUpdateHss", HostServiceStatePath(h, x), "stop")

\* conn.Get, json.Unmarshal, mutator, json.Marshal
LoadStep(c) ==
    LET f == lau[c]
        n == zk[f.path]
        g == [f EXCEPT !.gets = @ + 1]
    IN  /\ f.at = "get"
        /\ lau' = [lau EXCEPT ![c] =
              IF ZkGetErr(f.path) # "nil"
              THEN [g EXCEPT !.at = "done", !.err = ZkGetErr(f.path)]
              ELSE IF ~UnmarshalOk(n.data)
              THEN [g EXCEPT !.at = "done", !.err = "ErrUnmarshal"]
              ELSE [g EXCEPT !.at = "set", !.version = n.version, !.read = n.data,
                             !.bytes = Marshal(Mutate(f.mutator, Unmarshal(n.data)))]]
        /\ UNCHANGED <<zk, extWritten, overlap>>

\* Mutant: the Set is not conditioned on the version read (version -1)
StoreStepAnyVersion(c) ==
    LET f == lau[c]
        e == ZkSetErr(f.path, zk[f.path].version)
    IN  /\ f.at = "set"
        /\ zk' = ZkSet(f.path, f.bytes, zk[f.path].version)
        /\ lau' = [lau EXCEPT ![c] = [f EXCEPT !.at = "done", !.err = e,
                                        !.sets = @ + 1]]
        /\ UNCHANGED <<extWritten, overlap>>

\* Mutant: a conflict is retried from the Get
StoreStepRetry(c) ==
    LET f == lau[c]
        e == ZkSetErr(f.path, f.version)
    IN  /\ f.at = "set"
        /\ zk' = ZkSet(f.path, f.bytes, f.version)
        /\ lau' = [lau EXCEPT ![c] =
              IF e = "ErrBadVersion" /\ f.gets < 2
              THEN [f EXCEPT !.at = "get", !.sets = @ + 1]
              ELSE [f EXCEPT !.at = "done", !.err = e, !.sets = @ + 1]]
        /\ UNCHANGED <<extWritten, overlap>>

\* conn.Set with the version read; the error, if any, is returned
StoreStep(c) ==
    LET f == lau[c]
        e == ZkSetErr(f.path, f.version)
    IN  /\ f.at = "set"
        /\ zk' = ZkSet(f.path, f.bytes, f.version)
        /\ lau' = [lau EXCEPT ![c] = [f EXCEPT !.at = "done", !.err = e,
                                        !.sets = @ + 1]]
        /\ UNCHANGED <<extWritten, overlap>>

LoadAndUpdateServiceState(c) ==
    /\ lau[c].fn = "LoadAndUpdateServiceState"
    /\ (LoadStep(c) \/ StoreStep(c))

loadAndUpdateService(c) ==
    /\ lau[c].fn = "loadAndUpdateService"
    /\ (LoadStep(c) \/ StoreStep(c))

loadAndUpdateHss(c) ==
    /\ lau[c].fn = "loadAndUpdateHss"
    /\ (LoadStep(c) \/ StoreStep(c))

\* The well-formed documents a node of the path may hold
ExtValues(path) ==
    IF path \in {ServicePath(s) : s \in ServiceIds}
    THEN {Marshal(Service(s, d)) : s \in ServiceIds, d \in {SVC_RUN, SVC_STOP}}
    ELSE IF path \in {ServiceStatePath(s, x) : s \in ServiceIds, x \in StateIds}
    THEN {Marshal(ServiceState(x, s, h, 0)) : x \in StateIds, s \in ServiceIds, h \in HostIds}
    ELSE {Marshal(HostServiceState(h, s, x, d)) :
             h \in HostIds, s \in ServiceIds, x \in StateIds, d \in {SVC_RUN, SVC_STOP}}

\* Another writer of the store (a scheduler, an agent) sets a node with the
\* version it has just read
RECURSIVE SumOver(_, _)
SumOver(f, S) ==
    IF S = {} THEN 0
    ELSE LET x == CHOOSE y \in S : TRUE IN f[x] + SumOver(f, S \ {x})

ExtWrite ==
    \E path \in StorePaths :
        /\ zk[path].exists
        /\ SumOver(extWritten, StorePaths) < MaxExtWrites
        /\ \E b \in ExtValues(path) : zk' = ZkSet(path, b, zk[path].version)
        /\ extWritten' = [extWritten EXCEPT ![path] = @ + 1]
        /\ UNCHANGED <<lau, overlap>>

InitStore ==
    /\ zk \in [StorePaths -> {NoNode} \cup {Node(Garbage)}
                              \cup UNION {{Node(b) : b \in ExtValues(p)} : p \in StorePaths}]
    /\ \A p \in StorePaths :
          zk[p].exists /\ UnmarshalOk(zk[p].data) => zk[p].data \in ExtValues(p)
    /\ lau = [c \in Callers |-> IdleFrame]
    /\ extWritten = [p \in StorePaths |-> 0]
    /\ overlap = FALSE

-----------------------------------------------------------------------------
(* The coordination store seen by the listener: a tree of nodes,            *)
(* client.Connection Exists / ChildrenW and its one-shot children watches   *)

Root == <<>>
ListenPath == <<"a", "b">>
Kids == {"A", "B"}
Nodes == {<<"a">>, <<"a", "b">>, <<"a", "c">>} \cup {ListenPath \o <<k>> : k \in Kids}

\* path.Dir
Dir(p) == IF p = Root THEN Root ELSE SubSeq(p, 1, Len(p) - 1)

RECURSIVE Ancestors(_)
Ancestors(p) == IF p = Root THEN {Root} ELSE {p} \cup Ancestors(Dir(p))

ChildNames(p) == {n[Len(n)] : n \in {m \in tree : m # Root /\ Dir(m) = p}}

\* conn.Exists
ConnExists(p) ==
    IF ~connOk THEN [exists |-> FALSE, err |-> "ErrConn"]
    ELSE IF p \in tree THEN [exists |-> TRUE, err |-> "nil"]
    ELSE [exists |-> FALSE, err |-> "ErrNoNode"]

\* conn.ChildrenW: fails on a lost connection and on a missing node
ConnChildrenWErr(p) ==
    IF ~connOk THEN "ErrConn" ELSE IF p \notin tree THEN "ErrNoNode" ELSE "nil"

NoWatch == [on |-> Root, st |-> "none"]
Armed(p) == [on |-> p, st |-> "armed"]
Fired == {"changed", "deleted"}

\* The store delivers the event of a change of node n to an armed watch:
\* NodeChildrenChanged to a watch on n's parent, NodeDeleted to a watch on n
Notify(w, n, deleted) ==
    IF w.st # "armed" THEN w
    ELSE IF deleted /\ w.on = n THEN [w EXCEPT !.st = "deleted"]
    ELSE IF w.on = Dir(n) THEN [w EXCEPT !.st = "changed"]
    ELSE w

PathExists(p) ==
    LET r == ConnExists(p)
    IN  IF r.err = "ErrNoNode" THEN [exists |-> FALSE, err |-> "nil"] ELSE r

-----------------------------------------------------------------------------
(* Ready: the recursive barrier *)

Frame(p, at) == [p |-> p, at |-> at]
Top == rstack[Len(rstack)]
SetTop(at) == [rstack EXCEPT ![Len(rstack)].at = at]

\* A Ready call returns v: an error is returned by every caller in turn
\* (lines 92-93), nil resumes the caller at its existence check (line 94)
ReadyReturns(v) ==
    IF v # "nil" \/ Len(rstack) = 1
    THEN /\ rstack' = <<>>
         /\ readyErr' = v
         /\ pc' = IF v = "nil" THEN "hook" ELSE "fail"
         /\ obs' = IF v = "nil" THEN obs ELSE [obs EXCEPT !.exit = "barrier"]
    ELSE /\ rstack' = [SubSeq(rstack, 1, Len(rstack) - 1)
                          EXCEPT ![Len(rstack) - 1].at = "check2"]
         /\ UNCHANGED <<readyErr, pc, obs>>

\* line 92: the loop calls Ready on the parent
ReadyRecurse == rstack' = Append(SetTop("await"), Frame(Dir(Top.p), "check1"))

\* lines 85-89, then the first call of line 92
ReadyCheck1 ==
    /\ pc = "ready" /\ Top.at = "check1"
    /\ LET r == PathExists(Top.p)
       IN  IF r.err # "nil" THEN ReadyReturns(r.err)
           ELSE IF r.exists THEN ReadyReturns("nil")
           ELSE ReadyRecurse /\ UNCHANGED <<readyErr, pc, obs>>
    /\ UNCHANGED <<tree, connOk, shutdown, watch, ready, ishutdown, processing, workers>>
    /\ UNCHANGED <<storeVars, startVars, removeVars, snapVars, daoVars>>

\* Mutant: once the parent is ready the node is taken to exist
ReadyCheck2Trusting ==
    /\ pc = "ready" /\ Top.at = "check2"
    /\ LET r == PathExists(Top.p)
       IN  IF r.err # "nil" THEN ReadyReturns(r.err) ELSE ReadyReturns("nil")
    /\ UNCHANGED <<tree, connOk, shutdown, watch, ready, ishutdown, processing, workers>>
    /\ UNCHANGED <<storeVars, startVars, removeVars, snapVars, daoVars>>

\* lines 94-98
ReadyCheck2 ==
    /\ pc = "ready" /\ Top.at = "check2"
    /\ LET r == PathExists(Top.p)
       IN  IF r.err # "nil" THEN ReadyReturns(r.err)
           ELSE IF r.exists THEN ReadyReturns("nil")
           ELSE rstack' = SetTop("watch") /\ UNCHANGED <<readyErr, pc, obs>>
    /\ UNCHANGED <<tree, connOk, shutdown, watch, ready, ishutdown, processing, workers>>
    /\ UNCHANGED <<storeVars, startVars, removeVars, snapVars, daoVars>>

\* lines 99-102: the children listed are dropped, the watch is kept
ReadyWatch ==
    /\ pc = "ready" /\ Top.at = "watch"
    /\ LET e == ConnChildrenWErr(Dir(Top.p))
       IN  IF e # "nil" THEN ReadyReturns(e) /\ UNCHANGED watch
           ELSE /\ watch' = Armed(Dir(Top.p))
                /\ rstack' = SetTop("select")
                /\ obs' = [obs EXCEPT !.waited = TRUE]
                /\ UNCHANGED <<readyErr, pc>>
    /\ UNCHANGED <<tree, connOk, shutdown, ready, ishutdown, processing, workers>>
    /\ UNCHANGED <<storeVars, startVars, removeVars, snapVars, daoVars>>

\* lines 25-29: the two error values of the package
ErrTimeout == "ErrTimeout"
ErrShutdown == "ErrShutdown"

\* Mutant: the shutdown case reports a timeout
ReadySelectTimeout ==
    /\ pc = "ready" /\ Top.at = "select"
    /\ \/ /\ watch.st \in Fired
          /\ watch' = NoWatch
          /\ ReadyRecurse
          /\ UNCHANGED <<readyErr, pc, obs>>
       \/ /\ shutdown
          /\ ReadyReturns(ErrTimeout)
          /\ UNCHANGED watch
    /\ UNCHANGED <<tree, connOk, shutdown, ready, ishutdown, processing, workers>>
    /\ UNCHANGED <<storeVars, startVars, removeVars, snapVars, daoVars>>
\* lines 103-108
ReadySelect ==
    /\ pc = "ready" /\ Top.at = "select"
    /\ \/ /\ watch.st \in Fired
          /\ watch' = NoWatch
          /\ ReadyRecurse
          /\ UNCHANGED <<readyErr, pc, obs>>
       \/ /\ shutdown
          /\ ReadyReturns(ErrShutdown)
          /\ UNCHANGED watch
    /\ UNCHANGED <<tree, connOk, shutdown, ready, ishutdown, processing, workers>>
    /\ UNCHANGED <<storeVars, startVars, removeVars, snapVars, daoVars>>

Ready == ReadyCheck1 \/ ReadyCheck2 \/ ReadyWatch \/ ReadySelect

-----------------------------------------------------------------------------
(* Listen *)

\* make(chan error, 1): the capacity of the ready channel Start passes
ReadyCap == 1

UnchangedEntityStore == UNCHANGED <<storeVars, startVars, removeVars, snapVars, daoVars>>

\* lines 126-134, failure: the error is sent on ready and Listen returns
ListenFail ==
    /\ pc = "fail"
    /\ Len(ready.buf) < ReadyCap
    /\ ready' = [ready EXCEPT !.buf = Append(@, readyErr)]
    /\ pc' = "returned"
    /\ obs' = [obs EXCEPT !.errLogged = TRUE]
    /\ UNCHANGED <<tree, connOk, shutdown, rstack, readyErr, watch, ishutdown,
                   processing, workers>>
    /\ UnchangedEntityStore

\* Mutant: the hook's error is sent but ready is closed all the same
ListenHookIgnoresError ==
    /\ pc = "hook"
    /\ \E e \in {"nil", "ErrHook"} :
          /\ ready' = [ready EXCEPT !.closed = TRUE]
          /\ obs' = [obs EXCEPT !.closedReady = @ + 1]
          /\ pc' = "list"
          /\ readyErr' = e
    /\ UNCHANGED <<tree, connOk, shutdown, rstack, watch, ishutdown, processing, workers>>
    /\ UnchangedEntityStore

\* lines 130-136: the listener's own Ready hook, then close(ready)
ListenHook ==
    /\ pc = "hook"
    /\ \E e \in {"nil", "ErrHook"} :
          IF e = "nil"
          THEN /\ ready' = [ready EXCEPT !.closed = TRUE]
               /\ obs' = [obs EXCEPT !.closedReady = @ + 1]
               /\ pc' = "list"
               /\ UNCHANGED readyErr
          ELSE /\ readyErr' = e
               /\ obs' = [obs EXCEPT !.exit = "hook"]
               /\ pc' = "fail"
               /\ UNCHANGED ready
    /\ UNCHANGED <<tree, connOk, shutdown, rstack, watch, ishutdown, processing, workers>>
    /\ UnchangedEntityStore

\* Mutant: the tracked set is not consulted
SpawnForAll(nodes) == nodes

\* lines 155-156: the listed nodes that are not tracked
SpawnFor(nodes) == nodes \ processing

\* Mutant: the goroutines capture the loop variable and all see its last value
StartedCaptured(new) ==
    [k \in Kids |-> IF new # {} /\ k = (CHOOSE m \in new : \A o \in new : o = m \/ m = "B")
                    THEN Cardinality(new) ELSE 0]

\* lines 159-165: go func(node string) {...}(node): each goroutine is handed
\* its own node, and calls Spawn with it
Started(new) == [k \in Kids |-> IF k \in new THEN 1 ELSE 0]

Add(n, d) == IF n + d < MaxSpawn THEN n + d ELSE MaxSpawn

\* Mutant: a listing untracks the children that are gone
ListenListPrunes ==
    /\ pc = "list"
    /\ LET e == ConnChildrenWErr(ListenPath)
           new == SpawnFor(ChildNames(ListenPath))
       IN  IF e # "nil"
           THEN /\ obs' = [obs EXCEPT !.errLogged = TRUE, !.exit = "children"]
                /\ pc' = "defer"
                /\ UNCHANGED <<watch, processing, workers>>
           ELSE /\ watch' = Armed(ListenPath)
                /\ processing' = (processing \cap ChildNames(ListenPath)) \cup new
                /\ workers' = [k \in Kids |->
                      [workers[k] EXCEPT !.running = @ + Started(new)[k]]]
                /\ obs' = [obs EXCEPT
                      !.spawns = [k \in Kids |-> Add(@[k], Started(new)[k])],
                      !.listed = TRUE]
                /\ pc' = "select"
    /\ UNCHANGED <<tree, connOk, shutdown, rstack, readyErr, ready, ishutdown>>
    /\ UnchangedEntityStore
\* lines 149-169: list and watch the children, spawn, PostProcess
ListenList ==
    /\ pc = "list"
    /\ LET e == ConnChildrenWErr(ListenPath)
           new == SpawnFor(ChildNames(ListenPath))
       IN  IF e # "nil"
           THEN /\ obs' = [obs EXCEPT !.errLogged = TRUE, !.exit = "children"]
                /\ pc' = "defer"
                /\ UNCHANGED <<watch, processing, workers>>
           ELSE /\ watch' = Armed(ListenPath)
                /\ processing' = processing \cup new
                /\ workers' = [k \in Kids |->
                      [workers[k] EXCEPT !.running = @ + Started(new)[k]]]
                /\ obs' = [obs EXCEPT
                      !.spawns = [k \in Kids |-> Add(@[k], Started(new)[k])],
                      !.listed = TRUE]
                /\ pc' = "select"
    /\ UNCHANGED <<tree, connOk, shutdown, rstack, readyErr, ready, ishutdown>>
    /\ UnchangedEntityStore

\* Mutant: a NodeDeleted event is handled like any other event
ListenEventAny ==
    /\ pc = "select"
    /\ watch.st \in Fired
    /\ watch' = NoWatch
    /\ pc' = "list"
    /\ obs' = [obs EXCEPT !.event = watch.st]
    /\ UNCHANGED <<tree, connOk, shutdown, rstack, readyErr, ready, ishutdown,
                   processing, workers>>
    /\ UnchangedEntityStore

\* lines 172-177: the watch fired
ListenEvent ==
    /\ pc = "select"
    /\ watch.st \in Fired
    /\ watch' = NoWatch
    /\ IF watch.st = "deleted"
       THEN pc' = "defer" /\ obs' = [obs EXCEPT !.exit = "deleted", !.event = "deleted"]
       ELSE pc' = "list" /\ obs' = [obs EXCEPT !.event = "changed"]
    /\ UNCHANGED <<tree, connOk, shutdown, rstack, readyErr, ready, ishutdown,
                   processing, workers>>
    /\ UnchangedEntityStore

\* Mutant: the completion is received and the child stays tracked
ListenDoneKeepsTracked ==
    /\ pc = "select"
    /\ \E k \in Kids :
          /\ workers[k].sending > 0
          /\ workers' = [workers EXCEPT ![k].sending = @ - 1]
    /\ pc' = "list"
    /\ watch' = NoWatch
    /\ UNCHANGED <<tree, connOk, shutdown, rstack, readyErr, ready, ishutdown, obs,
                   processing>>
    /\ UnchangedEntityStore
\* lines 178-180: a worker's completion is received
ListenDone ==
    /\ pc = "select"
    /\ \E k \in Kids :
          /\ workers[k].sending > 0
          /\ workers' = [workers EXCEPT ![k].sending = @ - 1]
          /\ processing' = processing \ {k}
    /\ pc' = "list"
    /\ watch' = NoWatch
    /\ UNCHANGED <<tree, connOk, shutdown, rstack, readyErr, ready, ishutdown, obs>>
    /\ UnchangedEntityStore

\* lines 181-182
ListenShutdown ==
    /\ pc = "select"
    /\ shutdown
    /\ pc' = "defer"
    /\ obs' = [obs EXCEPT !.exit = "shutdown"]
    /\ UNCHANGED <<tree, connOk, shutdown, rstack, readyErr, watch, ready, ishutdown,
                   processing, workers>>
    /\ UnchangedEntityStore

\* Mutant: the deferred function does not close _shutdown
ListenDeferKeepsWorkers ==
    /\ pc = "defer"
    /\ obs' = [obs EXCEPT !.doneRuns = @ + 1]
    /\ pc' = "drain"
    /\ UNCHANGED <<tree, connOk, shutdown, rstack, readyErr, watch, ready,
                   processing, workers, ishutdown>>
    /\ UnchangedEntityStore
\* Mutant: the deferred function does not call l.Done()
ListenDeferNoDone ==
    /\ pc = "defer"
    /\ ishutdown' = TRUE
    /\ obs' = [obs EXCEPT !.closes = @ + 1]
    /\ pc' = "drain"
    /\ UNCHANGED <<tree, connOk, shutdown, rstack, readyErr, watch, ready,
                   processing, workers>>
    /\ UnchangedEntityStore

\* lines 138-141: the deferred function runs l.Done() and closes _shutdown
ListenDefer ==
    /\ pc = "defer"
    /\ ishutdown' = TRUE
    /\ obs' = [obs EXCEPT !.doneRuns = @ + 1, !.closes = @ + 1]
    /\ pc' = "drain"
    /\ UNCHANGED <<tree, connOk, shutdown, rstack, readyErr, watch, ready,
                   processing, workers>>
    /\ UnchangedEntityStore

\* lines 142-144: delete(processing, <-done) while the tracked set is not empty
ListenDrain ==
    /\ pc = "drain"
    /\ processing # {}
    /\ \E k \in Kids :
          /\ workers[k].sending > 0
          /\ workers' = [workers EXCEPT ![k].sending = @ - 1]
          /\ processing' = processing \ {k}
    /\ UNCHANGED <<tree, connOk, shutdown, pc, rstack, readyErr, watch, ready,
                   ishutdown, obs>>
    /\ UnchangedEntityStore

\* Mutant: Listen returns without draining the completion channel
ListenReturnNoDrain ==
    /\ pc = "drain"
    /\ pc' = "returned"
    /\ UNCHANGED <<tree, connOk, shutdown, rstack, readyErr, watch, ready,
                   ishutdown, processing, workers, obs>>
    /\ UnchangedEntityStore

\* line 142 with an empty tracked set: the deferred function and Listen return
ListenReturn ==
    /\ pc = "drain"
    /\ processing = {}
    /\ pc' = "returned"
    /\ UNCHANGED <<tree, connOk, shutdown, rstack, readyErr, watch, ready,
                   ishutdown, processing, workers, obs>>
    /\ UnchangedEntityStore

Listen ==
    \/ Ready
    \/ ListenFail
    \/ ListenHook
    \/ ListenList
    \/ ListenEvent
    \/ ListenDone
    \/ ListenShutdown
    \/ ListenDefer
    \/ ListenDrain
    \/ ListenReturn

\* lines 159-165: l.Spawn returns and the goroutine offers its name on done.
\* Spawn is the listener's: it may return at any time.
SpawnReturns(k) ==
    /\ workers[k].running > 0
    /\ workers' = [workers EXCEPT ![k].running = @ - 1, ![k].sending = @ + 1]
    /\ obs' = [obs EXCEPT !.early = @ \/ ~ishutdown]
    /\ UNCHANGED <<tree, connOk, shutdown, pc, rstack, readyErr, watch, ready,
                   ishutdown, processing>>
    /\ UnchangedEntityStore

\* A worker that stops on the broadcast
SpawnStops == \E k \in Kids : ishutdown /\ SpawnReturns(k)

\* A worker that returns on its own
SpawnExits == \E k \in Kids : ~ishutdown /\ SpawnReturns(k)

-----------------------------------------------------------------------------
(* The environment of the listener: other clients of the store, the caller *)

Create ==
    \E n \in Nodes \ tree :
        /\ Dir(n) \in tree
        /\ tree' = tree \cup {n}
        /\ watch' = Notify(watch, n, FALSE)
        /\ obs' = [obs EXCEPT !.ever = @ \cup ({n} \cap Ancestors(ListenPath)),
                              !.kidsChanged = @ \/ Dir(n) = ListenPath]
        /\ UNCHANGED <<connOk, shutdown, pc, rstack, readyErr, ready, ishutdown,
                       processing, workers>>
        /\ UnchangedEntityStore

Delete ==
    \E n \in tree \ {Root} :
        /\ \A m \in tree : m = Root \/ Dir(m) # n
        /\ tree' = tree \ {n}
        /\ watch' = Notify(watch, n, TRUE)
        /\ obs' = [obs EXCEPT !.kidsChanged = @ \/ Dir(n) = ListenPath]
        /\ UNCHANGED <<connOk, shutdown, pc, rstack, readyErr, ready, ishutdown,
                       processing, workers>>
        /\ UnchangedEntityStore

Shutdown ==
    /\ ~shutdown
    /\ shutdown' = TRUE
    /\ UNCHANGED <<tree, connOk, pc, rstack, readyErr, watch, ready, ishutdown,
                   processing, workers, obs>>
    /\ UnchangedEntityStore

ConnLost ==
    /\ connOk
    /\ connOk' = FALSE
    /\ UNCHANGED <<tree, shutdown, pc, rstack, readyErr, watch, ready, ishutdown,
                   processing, workers, obs>>
    /\ UnchangedEntityStore

-----------------------------------------------------------------------------
(* Start: a master listener and its dependents (zzk.go 190-235).           *)
(* Listener 0 is the master, 1..start.listeners are the dependents.  Each   *)
(* Listen call is followed through its phases: the Ready barrier with the   *)
(* readiness hook, the loop, the deferred drain.                            *)

Master == 0
Dependents == 1..MaxListeners
Listeners == {Master} \cup Dependents

\* tracked: the listener's tracked set (processing) is not empty
IdleListener == [pc |-> "idle", tracked |-> FALSE,
                 ready |-> [closed |-> FALSE, buf |-> <<>>], failed |-> FALSE]

Launched(l) == lis[l].pc # "idle"
Exited(l) == lis[l].pc = "exited"
\* Listen has returned, its worker drain included
ListenReturned(l) == lis[l].pc \in {"returned", "exited"}

\* lines 126-134: Ready or the readiness hook l.Ready fail; the error is put
\* on the ready channel and Listen returns, nothing deferred.  Ready returns
\* ErrShutdown when the caller's shutdown channel (Start's _shutdown) is
\* closed while it waits; the other errors are the store's and the hook's.
ListenStartupFails(l, e) ==
    /\ lis[l].pc = "barrier"
    /\ e = "ErrShutdown" => start._shutdown
    /\ Len(lis[l].ready.buf) < ReadyCap
    /\ lis' = [lis EXCEPT ![l].pc = "returned", ![l].failed = TRUE,
                          ![l].ready.buf = Append(@, e)]
    /\ UNCHANGED <<start, sobs>>

\* lines 126-136: the path exists, Ready and l.Ready succeed: close(ready)
ListenIsReady(l) ==
    /\ lis[l].pc = "barrier"
    /\ lis' = [lis EXCEPT ![l].pc = "loop", ![l].ready.closed = TRUE]
    /\ UNCHANGED <<start, sobs>>

\* lines 154-167: a child appears and the loop starts its worker
ListenSpawns(l) ==
    /\ lis[l].pc = "loop"
    /\ ~lis[l].tracked
    /\ lis' = [lis EXCEPT ![l].tracked = TRUE]
    /\ UNCHANGED <<start, sobs>>

\* lines 179-181: the worker returned on its own and the loop received its name
ListenCleansUp(l) ==
    /\ lis[l].pc = "loop"
    /\ lis[l].tracked
    /\ lis' = [lis EXCEPT ![l].tracked = FALSE]
    /\ UNCHANGED <<start, sobs>>

\* lines 148-152, 173-177, 182-183: the loop returns on the caller's shutdown
\* channel (Start's _shutdown), on a ChildrenW error or on the node's
\* deletion; the deferred function calls l.Done and closes Listen's own
\* _shutdown (lines 138-142)
ListenLeavesLoop(l, cause) ==
    /\ lis[l].pc = "loop"
    /\ cause = "shutdown" => start._shutdown
    /\ lis' = [lis EXCEPT ![l].pc = "drain"]
    /\ UNCHANGED <<start, sobs>>

\* a worker that stops on the broadcast; the deferred loop receives its name
\* (lines 142-144)
WorkerStops(l) ==
    /\ lis[l].pc = "drain"
    /\ lis[l].tracked
    /\ lis' = [lis EXCEPT ![l].tracked = FALSE]
    /\ UNCHANGED <<start, sobs>>

\* lines 142-145: the tracked set is empty and Listen returns
ListenHasDrained(l) ==
    /\ lis[l].pc = "drain"
    /\ ~lis[l].tracked
    /\ lis' = [lis EXCEPT ![l].pc = "returned"]
    /\ UNCHANGED <<start, sobs>>

\* Mutant: the end of a dependent's goroutine closes done as the master's does
GoroutineEndsClosesDone(l) ==
    /\ lis[l].pc = "returned"
    /\ lis' = [lis EXCEPT ![l].pc = "exited"]
    /\ start' = IF l = Master THEN [start EXCEPT !.done = TRUE]
                ELSE [start EXCEPT !.wg = @ - 1, !.done = TRUE]
    /\ UNCHANGED sobs
\* lines 199-206 and 217-220: the goroutine around Listen ends: the master's
\* closes done, a dependent's calls wg.Done
GoroutineEnds(l) ==
    /\ lis[l].pc = "returned"
    /\ lis' = [lis EXCEPT ![l].pc = "exited"]
    /\ start' = IF l = Master THEN [start EXCEPT !.done = TRUE]
                ELSE [start EXCEPT !.wg = @ - 1]
    /\ UNCHANGED sobs

\* lines 203-205: without a master the goroutine waits for _shutdown
NilMasterEnds ==
    /\ lis[Master].pc = "nilwait"
    /\ start._shutdown
    /\ lis' = [lis EXCEPT ![Master].pc = "exited"]
    /\ start' = [start EXCEPT !.done = TRUE]
    /\ UNCHANGED sobs

\* the steps of listener l's goroutine that need nothing from outside: what
\* it does once _shutdown is closed, the drain and the goroutine's end
ListenOf(l) ==
    \/ ListenStartupFails(l, "ErrShutdown")
    \/ ListenLeavesLoop(l, "shutdown")
    \/ ListenHasDrained(l)
    \/ GoroutineEnds(l)

\* the steps that answer the store and the listener's own methods: the path
\* appears, the store or the hook fail, a child appears, a worker ends, the
\* node is deleted
ListenMeets(l) ==
    \/ ListenIsReady(l)
    \/ \E e \in {"ErrStore", "ErrHook"} : ListenStartupFails(l, e)
    \/ ListenSpawns(l)
    \/ ListenCleansUp(l)
    \/ \E cause \in {"error", "deleted"} : ListenLeavesLoop(l, cause)

\* Mutant: Listen is called for a nil master as well
StartGoMasterAlwaysListens ==
    /\ start.pc = "go"
    /\ start' = [start EXCEPT !.pc = "select1"]
    /\ lis' = [lis EXCEPT ![Master].pc = "barrier"]
    /\ UNCHANGED sobs
\* lines 199-206: go func() { defer close(done); Listen(...) or <-_shutdown }
StartGoMaster ==
    /\ start.pc = "go"
    /\ start' = [start EXCEPT !.pc = "select1"]
    /\ lis' = [lis EXCEPT ![Master].pc = IF start.master THEN "barrier" ELSE "nilwait"]
    /\ UNCHANGED sobs

\* the value a receive from the master's ready channel yields: the buffered
\* error, or the zero value of a closed channel
ReadyValue == IF lis[Master].ready.buf # <<>> THEN Head(lis[Master].ready.buf) ELSE "nil"

ReadyReadable == lis[Master].ready.buf # <<>> \/ lis[Master].ready.closed

\* Mutant: the error received from ready is not looked at
StartSelect1ReadyIgnoresErr ==
    /\ start.pc = "select1"
    /\ ReadyReadable
    /\ lis' = [lis EXCEPT ![Master].ready.buf = IF @ = <<>> THEN @ ELSE Tail(@)]
    /\ start' = [start EXCEPT !.pc = IF start.listeners = 0 THEN "select2" ELSE "launch"]
    /\ sobs' = [sobs EXCEPT !.case1 = IF ReadyValue = "nil" THEN "nil" ELSE "err",
                            !.readyAt1 = lis[Master].ready.closed]
\* lines 209-214: case err := <-ready; a non-nil error breaks out of the select
StartSelect1Ready ==
    /\ start.pc = "select1"
    /\ ReadyReadable
    /\ lis' = [lis EXCEPT ![Master].ready.buf = IF @ = <<>> THEN @ ELSE Tail(@)]
    /\ start' = [start EXCEPT !.pc = IF ReadyValue # "nil" \/ start.listeners = 0
                                     THEN "select2" ELSE "launch"]
    /\ sobs' = [sobs EXCEPT !.case1 = IF ReadyValue = "nil" THEN "nil" ELSE "err",
                            !.readyAt1 = lis[Master].ready.closed]

\* line 222: case <-done
StartSelect1Done ==
    /\ start.pc = "select1"
    /\ start.done
    /\ start' = [start EXCEPT !.pc = "select2"]
    /\ sobs' = [sobs EXCEPT !.case1 = "done", !.readyAt1 = lis[Master].ready.closed]
    /\ UNCHANGED lis

\* line 223: case <-shutdown
StartSelect1Shutdown ==
    /\ start.pc = "select1"
    /\ start.shutdown
    /\ start' = [start EXCEPT !.pc = "select2"]
    /\ sobs' = [sobs EXCEPT !.case1 = "shutdown", !.readyAt1 = lis[Master].ready.closed]
    /\ UNCHANGED lis

\* Mutant: only the first dependent is launched
StartLaunchFirstOnly ==
    /\ start.pc = "launch"
    /\ start' = [start EXCEPT !.wg = @ + 1, !.next = @ + 1, !.pc = "select2"]
    /\ lis' = [lis EXCEPT ![start.next].pc = "barrier"]
    /\ UNCHANGED sobs
\* lines 215-221: for each listener: wg.Add(1); go func() { defer wg.Done();
\* Listen(_shutdown, make(chan error, 1), l) }
StartLaunch ==
    /\ start.pc = "launch"
    /\ start' = [start EXCEPT !.wg = @ + 1, !.next = @ + 1,
                              !.pc = IF start.next = start.listeners
                                     THEN "select2" ELSE "launch"]
    /\ lis' = [lis EXCEPT ![start.next].pc = "barrier"]
    /\ UNCHANGED sobs

\* lines 227-230: the master has exited or the caller shuts down
StartSelect2 ==
    /\ start.pc = "select2"
    /\ \E t \in {"done", "shutdown"} :
          /\ t = "done" => start.done
          /\ t = "shutdown" => start.shutdown
          /\ sobs' = [sobs EXCEPT !.trigger = t]
    /\ start' = [start EXCEPT !.pc = "close"]
    /\ UNCHANGED lis

\* Mutant: the broadcast channel is not closed
StartCloseSkipped ==
    /\ start.pc = "close"
    /\ start' = [start EXCEPT !.pc = "wait"]
    /\ UNCHANGED <<lis, sobs>>
\* line 233: close(_shutdown)
StartClose ==
    /\ start.pc = "close"
    /\ start' = [start EXCEPT !.pc = "wait", !._shutdown = TRUE]
    /\ UNCHANGED <<lis, sobs>>

\* line 234: wg.Wait(), then Start returns
StartWait ==
    /\ start.pc = "wait"
    /\ start.wg = 0
    /\ start' = [start EXCEPT !.pc = "returned"]
    /\ UNCHANGED <<lis, sobs>>

Start ==
    \/ StartGoMaster
    \/ StartSelect1Ready
    \/ StartSelect1Done
    \/ StartSelect1Shutdown
    \/ StartLaunch
    \/ StartSelect2
    \/ StartClose
    \/ StartWait

\* The environment of Start: the caller closes shutdown
ExternalShutdown ==
    /\ ~start.shutdown
    /\ start' = [start EXCEPT !.shutdown = TRUE]
    /\ UNCHANGED <<lis, sobs>>

InitStart ==
    /\ \E m \in BOOLEAN, n \in 0..MaxListeners :
          start = [pc |-> "go", master |-> m, listeners |-> n, next |-> 1,
                   wg |-> 0, done |-> FALSE, _shutdown |-> FALSE,
                   shutdown |-> FALSE]
    /\ lis = [l \in Listeners |-> IdleListener]
    /\ sobs = [case1 |-> "none", readyAt1 |-> FALSE, trigger |-> "none"]

-----------------------------------------------------------------------------
(* RemoveService (package zzk over go-zookeeper, part_003 312-357): set the  *)
(* service to STOP, wait until it has no children, delete it.  The call's    *)
(* loadAndUpdateService runs in caller p's frame of the entity store.        *)

Remover == "p"

\* the ServiceState nodes under a service's path
ChildPaths(serviceId) == {ServiceStatePath(serviceId, x) : x \in StateIds}
Children(serviceId) == {x \in StateIds : zk[ServiceStatePath(serviceId, x)].exists}

\* conn.Delete(path, version): conditioned on the version; a node with
\* children is not deleted
ZkDeleteErr(path, version) ==
    IF ~zk[path].exists THEN "ErrNoNode"
    ELSE IF zk[path].version # version THEN "ErrBadVersion"
    ELSE IF \E s \in ServiceIds : path = ServicePath(s) /\ Children(s) # {}
    THEN "ErrNotEmpty"
    ELSE "nil"

ZkDelete(path, version) ==
    IF ZkDeleteErr(path, version) = "nil" THEN [zk EXCEPT ![path] = NoNode] ELSE zk

\* errors.New("Timed out waiting for children to die for " + servicePath)
TimedOut(servicePath) == <<"Timed out waiting for children to die for ", servicePath>>

IdleRemoveFrame ==
    [pc |-> "idle", id |-> <<>>, err |-> "nil", children |-> {}, watch |-> "none",
     timer |-> 0, version |-> 0, first |-> "none", listed |-> FALSE,
     waited |-> FALSE, timedOut |-> FALSE, deleteCalled |-> FALSE,
     deleted |-> FALSE, orphaned |-> FALSE, touched |-> FALSE, eventSeen |-> FALSE,
     foreign |-> FALSE]

RemoveServiceReturns(e) == [rm EXCEPT !.pc = "done", !.err = e]

\* lines 313-319: loadAndUpdateService(conn, id, DesiredState = SVC_STOP)
RemoveServiceStop ==
    /\ rm.pc = "call"
    /\ Call(Remover, "loadAndUpdateService", ServicePath(rm.id), "stop")
    /\ rm' = [rm EXCEPT !.pc = "stop"]

\* Mutant: the error of loadAndUpdateService is not looked at
RemoveServiceStoppedIgnoresErr ==
    /\ rm.pc = "stop"
    /\ lau[Remover].at = "done"
    /\ rm' = [rm EXCEPT !.pc = "list"]
    /\ UNCHANGED storeVars
\* lines 320-322: if err != nil { return err }
RemoveServiceStopped ==
    /\ rm.pc = "stop"
    /\ lau[Remover].at = "done"
    /\ rm' = IF lau[Remover].err # "nil" THEN RemoveServiceReturns(lau[Remover].err)
             ELSE [rm EXCEPT !.pc = "list"]
    /\ UNCHANGED storeVars

\* Mutant: one timer for the whole wait, not restarted by a listing
RemoveServiceChildrenWOneTimer ==
    /\ rm.pc = "list"
    /\ rm' = IF ~zk[ServicePath(rm.id)].exists THEN RemoveServiceReturns("ErrNoNode")
             ELSE [rm EXCEPT !.children = Children(rm.id), !.listed = TRUE,
                             !.touched = FALSE,
                             !.first = IF rm.first # "none" THEN rm.first
                                       ELSE IF Children(rm.id) = {} THEN "empty"
                                       ELSE "children",
                             !.watch = IF Children(rm.id) = {} THEN "none" ELSE "armed",
                             !.waited = @ \/ Children(rm.id) # {},
                             !.pc = IF Children(rm.id) = {} THEN "load" ELSE "select"]
    /\ UNCHANGED storeVars
\* Mutant: the node is loaded and deleted after the first listing, whatever
\* it holds
RemoveServiceChildrenWOnce ==
    /\ rm.pc = "list"
    /\ rm' = IF ~zk[ServicePath(rm.id)].exists THEN RemoveServiceReturns("ErrNoNode")
             ELSE [rm EXCEPT !.children = Children(rm.id), !.listed = TRUE,
                             !.touched = FALSE, !.pc = "load",
                             !.first = IF rm.first # "none" THEN rm.first
                                       ELSE IF Children(rm.id) = {} THEN "empty"
                                       ELSE "children"]
    /\ UNCHANGED storeVars
\* lines 324-325 and 338-341: children, _, zke, err = conn.ChildrenW(servicePath);
\* the loop goes on while err == nil and there are children
RemoveServiceChildrenW ==
    /\ rm.pc = "list"
    /\ rm' = IF ~zk[ServicePath(rm.id)].exists THEN RemoveServiceReturns("ErrNoNode")
             ELSE [rm EXCEPT !.children = Children(rm.id), !.listed = TRUE,
                             !.touched = FALSE,
                             !.first = IF rm.first # "none" THEN rm.first
                                       ELSE IF Children(rm.id) = {} THEN "empty"
                                       ELSE "children",
                             !.watch = IF Children(rm.id) = {} THEN "none" ELSE "armed",
                             !.timer = 0,
                             !.waited = @ \/ Children(rm.id) # {},
                             !.pc = IF Children(rm.id) = {} THEN "load" ELSE "select"]
    /\ UNCHANGED storeVars

\* lines 328-331: case evt := <-zke: continue
RemoveServiceEvent ==
    /\ rm.pc = "select"
    /\ rm.watch = "fired"
    /\ rm' = [rm EXCEPT !.pc = "list", !.watch = "none", !.eventSeen = TRUE]
    /\ UNCHANGED storeVars

\* Mutant: on the timeout the desired state that was read is written back
RemoveServiceTimeoutRestores ==
    /\ rm.pc = "select"
    /\ rm.timer = DrainWait
    /\ rm' = [RemoveServiceReturns(TimedOut(ServicePath(rm.id)))
                 EXCEPT !.watch = "none", !.timedOut = TRUE]
    /\ zk' = [zk EXCEPT ![ServicePath(rm.id)].data = lau[Remover].read]
    /\ UNCHANGED <<lau, extWritten, overlap>>
\* Mutant: after the wait the service counts as drained
RemoveServiceTimeoutDrained ==
    /\ rm.pc = "select"
    /\ rm.timer = DrainWait
    /\ rm' = [rm EXCEPT !.pc = "load", !.watch = "none", !.timedOut = TRUE]
    /\ UNCHANGED storeVars
\* lines 333-335: case <-time.After(30 * time.Second): return the timeout error
RemoveServiceTimeout ==
    /\ rm.pc = "select"
    /\ rm.timer = DrainWait
    /\ rm' = [RemoveServiceReturns(TimedOut(ServicePath(rm.id)))
                 EXCEPT !.watch = "none", !.timedOut = TRUE]
    /\ UNCHANGED storeVars

\* lines 343-347: stats, err := LoadService(conn, id, &service)
RemoveServiceLoad ==
    /\ rm.pc = "load"
    /\ rm' = IF ZkGetErr(ServicePath(rm.id)) # "nil"
             THEN RemoveServiceReturns(ZkGetErr(ServicePath(rm.id)))
             ELSE IF ~UnmarshalOk(zk[ServicePath(rm.id)].data)
             THEN RemoveServiceReturns("ErrUnmarshal")
             ELSE [rm EXCEPT !.pc = "delete", !.version = zk[ServicePath(rm.id)].version]
    /\ UNCHANGED storeVars

\* Mutant: the Delete carries the version the STOP update read
RemoveServiceDeleteStale ==
    LET e == ZkDeleteErr(ServicePath(rm.id), lau[Remover].version)
    IN  /\ rm.pc = "delete"
        /\ zk' = ZkDelete(ServicePath(rm.id), lau[Remover].version)
        /\ rm' = [RemoveServiceReturns(e) EXCEPT
                     !.deleteCalled = TRUE, !.deleted = (e = "nil"),
                     !.orphaned = (e = "nil" /\ Children(rm.id) # {})]
        /\ UNCHANGED <<lau, extWritten, overlap>>
\* lines 349-356: err = conn.Delete(servicePath, stats.Version)
RemoveServiceDelete ==
    LET e == ZkDeleteErr(ServicePath(rm.id), rm.version)
    IN  /\ rm.pc = "delete"
        /\ zk' = ZkDelete(ServicePath(rm.id), rm.version)
        /\ rm' = [RemoveServiceReturns(e) EXCEPT
                     !.deleteCalled = TRUE, !.deleted = (e = "nil"),
                     !.orphaned = (e = "nil" /\ Children(rm.id) # {})]
        /\ UNCHANGED <<lau, extWritten, overlap>>

RemoveService ==
    \/ RemoveServiceStop
    \/ RemoveServiceStopped
    \/ RemoveServiceChildrenW
    \/ RemoveServiceEvent
    \/ RemoveServiceTimeout
    \/ RemoveServiceLoad
    \/ RemoveServiceDelete

\* a second of the wait passes
Tick ==
    /\ rm.pc = "select"
    /\ rm.timer < DrainWait
    /\ rm' = [rm EXCEPT !.timer = @ + 1]
    /\ UNCHANGED storeVars

\* The children watch fires once, on the first change of the children or on
\* the node's deletion
WatchFires(r) == [r EXCEPT !.watch = IF @ = "armed" THEN "fired" ELSE @,
                           !.touched = r.listed]

\* A scheduler creates a ServiceState node under the service (the Create of
\* AddServiceState, lines 97-101)
SchedulerAdds ==
    \E s \in ServiceIds, x \in StateIds, h \in HostIds :
        /\ zk[ServicePath(s)].exists
        /\ ~zk[ServiceStatePath(s, x)].exists
        /\ zk' = [zk EXCEPT ![ServiceStatePath(s, x)] =
                                Node(Marshal(ServiceState(x, s, h, 0)))]
        /\ rm' = WatchFires(rm)
        /\ UNCHANGED <<lau, extWritten, overlap>>

\* A scheduler deletes a ServiceState node (the Delete of RemoveServiceState,
\* lines 369-373)
SchedulerRemoves ==
    \E s \in ServiceIds, x \in StateIds :
        /\ zk[ServiceStatePath(s, x)].exists
        /\ zk' = [zk EXCEPT ![ServiceStatePath(s, x)] = NoNode]
        /\ rm' = WatchFires(rm)
        /\ UNCHANGED <<lau, extWritten, overlap>>

\* Another client deletes the service node with the version it has just read
OtherDelete ==
    \E s \in ServiceIds :
        /\ ZkDeleteErr(ServicePath(s), zk[ServicePath(s)].version) = "nil"
        /\ zk' = ZkDelete(ServicePath(s), zk[ServicePath(s)].version)
        /\ rm' = [WatchFires(rm) EXCEPT !.foreign = TRUE]
        /\ UNCHANGED <<lau, extWritten, overlap>>

\* Another client sets a node
OtherWrite ==
    /\ ExtWrite
    /\ rm' = [rm EXCEPT !.touched = rm.listed, !.foreign = TRUE]

\* RemoveService(conn, id) is called on a store in which every ServiceState
\* node lies under an existing service node
InitRemove ==
    /\ InitStore
    /\ \A s \in ServiceIds : Children(s) # {} => zk[ServicePath(s)].exists
    /\ \A h \in HostIds, x \in StateIds : zk[HostServiceStatePath(h, x)] = NoNode
    /\ lau = [c \in Callers |-> IdleFrame]
    /\ extWritten = [p \in StorePaths |-> 0]
    /\ overlap = FALSE
    /\ \E s \in ServiceIds : rm = [IdleRemoveFrame EXCEPT !.pc = "call", !.id = s]

-----------------------------------------------------------------------------
(* ControlPlaneDao.Snapshot (part_000 200-253): create the request node,    *)
(* reload it once a second for at most 60 seconds.  The clock counts the    *)
(* seconds slept since endTime was computed; a store call takes no time.    *)

Labels == {"", "snap-1", "snap-2"}
SnapshotErrors == {"", "disk full"}

\* the request node: dao.SnapshotRequest as zkDao.AddSnapshotRequest stores it
NoRequest == [exists |-> FALSE, label |-> "", error |-> ""]
NewSnapshotRequest == [exists |-> TRUE, label |-> "", error |-> ""]

\* fmt.Errorf("timed out waiting %v for snapshot: %+v", timeOutValue, snapshotRequest)
SnapshotTimedOut(serviceId) == <<"timed out waiting for snapshot", SnapshotCeiling, serviceId>>

\* label0: the caller's *label when Snapshot is called
\* wAt, wWaiting, polled: the clock at the fulfiller's last write, whether
\* Snapshot was in its polling loop then, and whether a poll has followed it
IdleSnapFrame ==
    [pc |-> "idle", serviceId |-> <<>>, t |-> 0, err |-> "nil", label |-> "",
     label0 |-> "", polls |-> 0, writes |-> 0, wAt |-> 0, wWaiting |-> FALSE,
     polled |-> FALSE, failedLoad |-> FALSE]

SnapshotWaiting == snap.pc \in {"loop", "sleep"}

SnapshotReturns(e) == [snap EXCEPT !.pc = "returned", !.err = e]

\* lines 204-208: GetTenantId
SnapshotGetTenantId ==
    /\ snap.pc = "call"
    /\ \E e \in {"nil", "ErrTenant"} :
          snap' = IF e # "nil" THEN SnapshotReturns(e) ELSE [snap EXCEPT !.pc = "add"]
    /\ UNCHANGED req

\* lines 211-219: dao.NewSnapshotRequest, zkDao.AddSnapshotRequest; then
\* lines 229-230: endTime := time.Now().Add(timeOutValue)
SnapshotAddRequest ==
    /\ snap.pc = "add"
    /\ \E e \in {"nil", "ErrAdd"} :
          IF e # "nil" \/ req.exists
          THEN /\ snap' = SnapshotReturns(IF e # "nil" THEN e ELSE "ErrNodeExists")
               /\ UNCHANGED req
          ELSE /\ req' = NewSnapshotRequest
               /\ snap' = [snap EXCEPT !.pc = "loop", !.t = 0]

\* Mutant: the request node is removed when the poll ends the call
SnapshotPollRemoves ==
    /\ snap.pc = "loop"
    /\ snap.t < SnapshotCeiling
    /\ \E e \in {"nil", "ErrLoad"} :
          LET p == [snap EXCEPT !.polls = @ + 1, !.polled = TRUE]
          IN  snap' =
                IF e # "nil" \/ ~req.exists
                THEN [p EXCEPT !.pc = "returned", !.failedLoad = TRUE,
                               !.err = IF e # "nil" THEN e ELSE "ErrNoNode"]
                ELSE IF req.error # ""
                THEN [p EXCEPT !.pc = "returned", !.err = req.error]
                ELSE IF req.label # ""
                THEN [p EXCEPT !.pc = "returned", !.err = "nil", !.label = req.label]
                ELSE [p EXCEPT !.pc = "sleep"]
    /\ req' = IF snap'.pc = "returned" THEN NoRequest ELSE req
\* Mutant: the switch looks at SnapshotLabel before SnapshotError
SnapshotPollLabelFirst ==
    /\ snap.pc = "loop"
    /\ snap.t < SnapshotCeiling
    /\ \E e \in {"nil", "ErrLoad"} :
          LET p == [snap EXCEPT !.polls = @ + 1, !.polled = TRUE]
          IN  snap' =
                IF e # "nil" \/ ~req.exists
                THEN [p EXCEPT !.pc = "returned", !.failedLoad = TRUE,
                               !.err = IF e # "nil" THEN e ELSE "ErrNoNode"]
                ELSE IF req.label # ""
                THEN [p EXCEPT !.pc = "returned", !.err = "nil", !.label = req.label]
                ELSE IF req.error # ""
                THEN [p EXCEPT !.pc = "returned", !.err = req.error]
                ELSE [p EXCEPT !.pc = "sleep"]
    /\ UNCHANGED req
\* lines 231-245: the ceiling is not reached; zkDao.LoadSnapshotRequestW and
\* the switch on its error, SnapshotError and SnapshotLabel
SnapshotPoll ==
    /\ snap.pc = "loop"
    /\ snap.t < SnapshotCeiling
    /\ \E e \in {"nil", "ErrLoad"} :
          LET p == [snap EXCEPT !.polls = @ + 1, !.polled = TRUE]
          IN  snap' =
                IF e # "nil" \/ ~req.exists
                THEN [p EXCEPT !.pc = "returned", !.failedLoad = TRUE,
                               !.err = IF e # "nil" THEN e ELSE "ErrNoNode"]
                ELSE IF req.error # ""
                THEN [p EXCEPT !.pc = "returned", !.err = req.error]
                ELSE IF req.label # ""
                THEN [p EXCEPT !.pc = "returned", !.err = "nil", !.label = req.label]
                ELSE [p EXCEPT !.pc = "sleep"]
    /\ UNCHANGED req

\* Mutant: the sleep does not count against the ceiling
SnapshotSleepNoClock ==
    /\ snap.pc = "sleep"
    /\ snap' = [snap EXCEPT !.pc = "loop"]
    /\ UNCHANGED req
\* line 247: time.Sleep(1 * time.Second)
SnapshotSleep ==
    /\ snap.pc = "sleep"
    /\ snap' = [snap EXCEPT !.pc = "loop", !.t = @ + PollInterval]
    /\ UNCHANGED req

\* lines 231 and 250-252: the ceiling has elapsed
SnapshotTimeout ==
    /\ snap.pc = "loop"
    /\ ~(snap.t < SnapshotCeiling)
    /\ snap' = SnapshotReturns(SnapshotTimedOut(snap.serviceId))
    /\ UNCHANGED req

Snapshot ==
    \/ SnapshotGetTenantId
    \/ SnapshotAddRequest
    \/ SnapshotPoll
    \/ SnapshotSleep
    \/ SnapshotTimeout

\* The leader serves the request: it overwrites the node with a label, an
\* error, or both
Fulfill ==
    /\ req.exists
    /\ snap.writes < MaxFulfill
    /\ \E l \in Labels, e \in SnapshotErrors :
          /\ l # "" \/ e # ""
          /\ req' = [req EXCEPT !.label = l, !.error = e]
    /\ snap' = [snap EXCEPT !.writes = @ + 1, !.wAt = snap.t,
                            !.wWaiting = SnapshotWaiting, !.polled = FALSE]

InitSnap ==
    /\ req = NoRequest
    /\ \E s \in ServiceIds, l \in Labels :
          snap = [IdleSnapFrame EXCEPT !.pc = "call", !.serviceId = s,
                                       !.label = l, !.label0 = l]

-----------------------------------------------------------------------------
(* AddServiceState and RemoveServiceState (part_003 91-116, 359-387): the   *)
(* ServiceState node under its service and its HostServiceState shadow      *)
(* under the host, written by two store calls each.                         *)

\* conn.Create(path, bytes): fails on a node that exists and under a parent
\* that does not
ZkCreateErr(path) ==
    IF zk[path].exists THEN "ErrNodeExists"
    ELSE IF \E s \in ServiceIds, x \in StateIds :
                path = ServiceStatePath(s, x) /\ ~zk[ServicePath(s)].exists
    THEN "ErrNoNode"
    ELSE "nil"

ZkCreate(path, b) ==
    IF ZkCreateErr(path) = "nil" THEN [zk EXCEPT ![path] = Node(b)] ELSE zk

\* SsToHss: the shadow of a ServiceState
SsToHss(ss) == HostServiceState(ss.HostId, ss.ServiceId, ss.Id, SVC_RUN)

\* what a store call answers when the connection fails
StoreFaults == {"nil", "ErrConn"}

\* made1, made2, gone1, gone2: the nodes the current call has created and
\* deleted; partial: a call of this caller has failed between its two writes
IdleEnt == [pc |-> "idle", fn |-> "none", state |-> ServiceState(<<>>, <<>>, <<>>, 0),
            hostId |-> <<>>, version |-> 0, err |-> "nil",
            made1 |-> FALSE, made2 |-> FALSE, gone1 |-> FALSE, gone2 |-> FALSE,
            partial |-> FALSE, calls |-> 0]

EntCalls == SumOver([c \in Callers |-> ent[c].calls], Callers)

EntCall(c, fn, state, at) ==
    /\ ent[c].pc \in {"idle", "done"}
    /\ EntCalls < MaxOps
    /\ ent' = [ent EXCEPT ![c] = [IdleEnt EXCEPT !.pc = at, !.fn = fn, !.state = state,
                                     !.partial = ent[c].partial,
                                     !.calls = ent[c].calls + 1]]
    /\ UNCHANGED storeVars

CallAddServiceState(c) ==
    \E s \in ServiceIds, x \in StateIds, h \in HostIds :
        EntCall(c, "AddServiceState", ServiceState(x, s, h, 0), "add1")

CallRemoveServiceState(c) ==
    \E s \in ServiceIds, x \in StateIds :
        EntCall(c, "RemoveServiceState", ServiceState(x, s, <<>>, 0), "rm1")

EntReturns(c, e) == [ent EXCEPT ![c].pc = "done", ![c].err = e]

\* AddServiceState lines 92-102: conn.Create of the ServiceState node
AddServiceStatePrimary(c) ==
    LET f == ent[c]
        path == ServiceStatePath(f.state.ServiceId, f.state.Id)
    IN  /\ f.pc = "add1"
        /\ \E fault \in StoreFaults :
              LET e == IF fault # "nil" THEN fault ELSE ZkCreateErr(path)
              IN  IF e # "nil"
                  THEN ent' = EntReturns(c, e) /\ UNCHANGED zk
                  ELSE /\ zk' = ZkCreate(path, Marshal(f.state))
                       /\ ent' = [ent EXCEPT ![c].pc = "add2", ![c].made1 = TRUE]
        /\ UNCHANGED <<lau, extWritten, overlap>>

\* Mutant: the call returns nil after the primary create
AddServiceStateShadowSkipped(c) ==
    /\ ent[c].pc = "add2"
    /\ ent' = EntReturns(c, "nil")
    /\ UNCHANGED storeVars
\* Mutant: a failed shadow create is compensated by deleting the primary
AddServiceStateShadowRollback(c) ==
    LET f == ent[c]
        path == HostServiceStatePath(f.state.HostId, f.state.Id)
        primary == ServiceStatePath(f.state.ServiceId, f.state.Id)
    IN  /\ f.pc = "add2"
        /\ \E fault \in StoreFaults :
              LET e == IF fault # "nil" THEN fault ELSE ZkCreateErr(path)
              IN  IF e # "nil"
                  THEN /\ ent' = [EntReturns(c, e) EXCEPT ![c].partial = TRUE]
                       /\ zk' = [zk EXCEPT ![primary] = NoNode]
                  ELSE /\ zk' = ZkCreate(path, Marshal(SsToHss(f.state)))
                       /\ ent' = [EntReturns(c, "nil") EXCEPT ![c].made2 = TRUE]
        /\ UNCHANGED <<lau, extWritten, overlap>>
\* AddServiceState lines 103-115: conn.Create of the HostServiceState node
AddServiceStateShadow(c) ==
    LET f == ent[c]
        path == HostServiceStatePath(f.state.HostId, f.state.Id)
    IN  /\ f.pc = "add2"
        /\ \E fault \in StoreFaults :
              LET e == IF fault # "nil" THEN fault ELSE ZkCreateErr(path)
              IN  IF e # "nil"
                  THEN /\ ent' = [EntReturns(c, e) EXCEPT ![c].partial = TRUE]
                       /\ UNCHANGED zk
                  ELSE /\ zk' = ZkCreate(path, Marshal(SsToHss(f.state)))
                       /\ ent' = [EntReturns(c, "nil") EXCEPT ![c].made2 = TRUE]
        /\ UNCHANGED <<lau, extWritten, overlap>>

AddServiceState(c) == AddServiceStatePrimary(c) \/ AddServiceStateShadow(c)

\* RemoveServiceState lines 362-366: LoadServiceState (conn.Get, json.Unmarshal)
RemoveServiceStateLoad(c) ==
    LET f == ent[c]
        path == ServiceStatePath(f.state.ServiceId, f.state.Id)
    IN  /\ f.pc = "rm1"
        /\ \E fault \in StoreFaults :
              LET e == IF fault # "nil" THEN fault
                       ELSE IF ZkGetErr(path) # "nil" THEN ZkGetErr(path)
                       ELSE IF ~UnmarshalOk(zk[path].data) THEN "ErrUnmarshal"
                       ELSE "nil"
              IN  ent' = IF e # "nil" THEN EntReturns(c, e)
                         ELSE [ent EXCEPT ![c].pc = "rm2",
                                          ![c].version = zk[path].version,
                                          ![c].hostId = Unmarshal(zk[path].data).HostId]
        /\ UNCHANGED storeVars

\* Mutant: the primary is deleted whatever its version
RemoveServiceStatePrimaryAnyVersion(c) ==
    LET f == ent[c]
        path == ServiceStatePath(f.state.ServiceId, f.state.Id)
    IN  /\ f.pc = "rm2"
        /\ \E fault \in StoreFaults :
              LET e == IF fault # "nil" THEN fault
                       ELSE ZkDeleteErr(path, zk[path].version)
              IN  IF e # "nil"
                  THEN ent' = EntReturns(c, e) /\ UNCHANGED zk
                  ELSE /\ zk' = ZkDelete(path, zk[path].version)
                       /\ ent' = [ent EXCEPT ![c].pc = "rm3", ![c].gone1 = TRUE]
        /\ UNCHANGED <<lau, extWritten, overlap>>
\* RemoveServiceState lines 368-372: conn.Delete(ssPath, stats.Version)
RemoveServiceStatePrimary(c) ==
    LET f == ent[c]
        path == ServiceStatePath(f.state.ServiceId, f.state.Id)
    IN  /\ f.pc = "rm2"
        /\ \E fault \in StoreFaults :
              LET e == IF fault # "nil" THEN fault ELSE ZkDeleteErr(path, f.version)
              IN  IF e # "nil"
                  THEN ent' = EntReturns(c, e) /\ UNCHANGED zk
                  ELSE /\ zk' = ZkDelete(path, f.version)
                       /\ ent' = [ent EXCEPT ![c].pc = "rm3", ![c].gone1 = TRUE]
        /\ UNCHANGED <<lau, extWritten, overlap>>

\* RemoveServiceState lines 374-379: conn.Get(hssPath)
RemoveServiceStateGetShadow(c) ==
    LET f == ent[c]
        path == HostServiceStatePath(f.hostId, f.state.Id)
    IN  /\ f.pc = "rm3"
        /\ \E fault \in StoreFaults :
              LET e == IF fault # "nil" THEN fault ELSE ZkGetErr(path)
              IN  ent' = IF e # "nil"
                         THEN [EntReturns(c, e) EXCEPT ![c].partial = TRUE]
                         ELSE [ent EXCEPT ![c].pc = "rm4", ![c].version = zk[path].version]
        /\ UNCHANGED storeVars

\* RemoveServiceState lines 381-386: conn.Delete(hssPath, stats.Version)
RemoveServiceStateShadow(c) ==
    LET f == ent[c]
        path == HostServiceStatePath(f.hostId, f.state.Id)
    IN  /\ f.pc = "rm4"
        /\ \E fault \in StoreFaults :
              LET e == IF fault # "nil" THEN fault ELSE ZkDeleteErr(path, f.version)
              IN  IF e # "nil"
                  THEN /\ ent' = [EntReturns(c, e) EXCEPT ![c].partial = TRUE]
                       /\ UNCHANGED zk
                  ELSE /\ zk' = ZkDelete(path, f.version)
                       /\ ent' = [EntReturns(c, "nil") EXCEPT ![c].gone2 = TRUE]
        /\ UNCHANGED <<lau, extWritten, overlap>>

RemoveServiceState(c) ==
    \/ RemoveServiceStateLoad(c)
    \/ RemoveServiceStatePrimary(c)
    \/ RemoveServiceStateGetShadow(c)
    \/ RemoveServiceStateShadow(c)

\* a ServiceState and its shadow are both there, with one identity, or both
\* missing
Shadowed(s, x, h) ==
    LET p == zk[ServiceStatePath(s, x)]
        q == zk[HostServiceStatePath(h, x)]
    IN  /\ p.exists <=> q.exists
        /\ p.exists => /\ p.data = Marshal(ServiceState(x, s, h, 0))
                       /\ q.data \in {Marshal(HostServiceState(h, s, x, d)) :
                                          d \in {SVC_RUN, SVC_STOP}}

\* No call is in progress; the store holds each ServiceState with its shadow
InitShadow ==
    /\ InitStore
    /\ \A s \in ServiceIds : ~UnmarshalOk(zk[ServicePath(s)].data) => ~zk[ServicePath(s)].exists
    /\ \A s \in ServiceIds, x \in StateIds, h \in HostIds :
          /\ Shadowed(s, x, h)
          /\ zk[ServiceStatePath(s, x)].exists => zk[ServicePath(s)].exists
    /\ lau = [c \in Callers |-> IdleFrame]
    /\ extWritten = [p \in StorePaths |-> 0]
    /\ overlap = FALSE
    /\ ent = [c \in Callers |-> IdleEnt]

-----------------------------------------------------------------------------
(* ZkDao.UpdateServiceState and ZkDao.UpdateService (part_003 118-161): the  *)
(* caller hands in a whole entity; the call reads the node's version and    *)
(* sets the node to the caller's entity under that version.                 *)

\* basis, basisWrites: the node and the number of writes to its path when
\* the caller obtained its copy; getWrites: the number of writes at the
\* call's Get; stale: the node had changed between the copy and the Get;
\* crossed: a write landed between the Get and the Set; writes: the
\* successful writes of this caller, per path
IdleUpd == [pc |-> "idle", fn |-> "none", path |-> <<>>, entity |-> <<>>,
            version |-> 0, err |-> "nil", via |-> "none",
            basis |-> NoNode, basisWrites |-> 0, getWrites |-> 0,
            stale |-> FALSE, crossed |-> FALSE, overwrote |-> Garbage,
            writes |-> [p \in StorePaths |-> 0]]

\* the writes made to a path so far, by the callers and by outside writers
Writes(path) == extWritten[path] + SumOver([c \in Callers |-> ent[c].writes[path]], Callers)

\* A caller enters one of the two functions, once, with the entity it
\* holds; what it holds was obtained from the node as it is now
UpdCall(c, fn, path, entity) ==
    /\ ent[c].pc = "idle"
    /\ ent' = [ent EXCEPT ![c] = [IdleUpd EXCEPT !.pc = "get", !.fn = fn, !.path = path,
                                     !.entity = entity, !.basis = zk[path],
                                     !.basisWrites = Writes(path)]]
    /\ UNCHANGED storeVars

CallUpdateServiceState(c) ==
    \E s \in ServiceIds, x \in StateIds, h \in HostIds, t \in {0, 1} :
        UpdCall(c, "UpdateServiceState", ServiceStatePath(s, x), ServiceState(x, s, h, t))

CallUpdateService(c) ==
    \E s \in ServiceIds, d \in {SVC_RUN, SVC_STOP} :
        UpdCall(c, "UpdateService", ServicePath(s), Service(s, d))

UpdReturns(c, e) == [ent EXCEPT ![c].pc = "done", ![c].err = e]

\* the frame after a Get that succeeded
UpdGot(c) ==
    [ent EXCEPT ![c].pc = "set", ![c].version = zk[ent[c].path].version,
                ![c].getWrites = Writes(ent[c].path),
                ![c].stale = (Writes(ent[c].path) # ent[c].basisWrites)]

\* the store and the frame after a Set under version v
UpdSet(c, v) ==
    LET f == ent[c]
    IN  \E fault \in StoreFaults :
          LET e == IF fault # "nil" THEN fault ELSE ZkSetErr(f.path, v)
              g == [UpdReturns(c, e) EXCEPT ![c].via = "set",
                                            ![c].crossed = (Writes(f.path) # f.getWrites),
                                            ![c].overwrote = zk[f.path].data]
          IN  IF e # "nil"
              THEN ent' = g /\ UNCHANGED zk
              ELSE /\ zk' = ZkSet(f.path, Marshal(f.entity), v)
                   /\ ent' = [g EXCEPT ![c].writes[f.path] = @ + 1]

\* UpdateServiceState lines 130-134: conn.Get(serviceStatePath)
UpdateServiceStateGet(c) ==
    LET f == ent[c]
    IN  /\ f.fn = "UpdateServiceState"
        /\ f.pc = "get"
        /\ \E fault \in StoreFaults :
              LET e == IF fault # "nil" THEN fault ELSE ZkGetErr(f.path)
              IN  ent' = IF e # "nil" THEN UpdReturns(c, e) ELSE UpdGot(c)
        /\ UNCHANGED storeVars

\* UpdateServiceState lines 135-136: conn.Set(serviceStatePath, ssBytes, stats.Version)
UpdateServiceStateSet(c) ==
    /\ ent[c].fn = "UpdateServiceState"
    /\ ent[c].pc = "set"
    /\ UpdSet(c, ent[c].version)
    /\ UNCHANGED <<lau, extWritten, overlap>>

UpdateServiceState(c) == UpdateServiceStateGet(c) \/ UpdateServiceStateSet(c)

\* UpdateService lines 153-158: conn.Get(servicePath); on any error the call
\* goes on to AddService
UpdateServiceGet(c) ==
    LET f == ent[c]
    IN  /\ f.fn = "UpdateService"
        /\ f.pc = "get"
        /\ \E fault \in StoreFaults :
              LET e == IF fault # "nil" THEN fault ELSE ZkGetErr(f.path)
              IN  ent' = IF e # "nil" THEN [ent EXCEPT ![c].pc = "add"] ELSE UpdGot(c)
        /\ UNCHANGED storeVars

\* UpdateService lines 156-157, AddService lines 63-79: conn.Create(servicePath,
\* sBytes); its error is returned
UpdateServiceAdd(c) ==
    LET f == ent[c]
    IN  /\ f.fn = "UpdateService"
        /\ f.pc = "add"
        /\ \E fault \in StoreFaults :
              LET e == IF fault # "nil" THEN fault ELSE ZkCreateErr(f.path)
                  g == [UpdReturns(c, e) EXCEPT ![c].via = "add"]
              IN  IF e # "nil"
                  THEN ent' = g /\ UNCHANGED zk
                  ELSE /\ zk' = ZkCreate(f.path, Marshal(f.entity))
                       /\ ent' = [g EXCEPT ![c].writes[f.path] = @ + 1]
        /\ UNCHANGED <<lau, extWritten, overlap>>

\* Mutant: the Set is conditioned on the version of the caller's copy
UpdateServiceSetCopyVersion(c) ==
    /\ ent[c].fn = "UpdateService"
    /\ ent[c].pc = "set"
    /\ UpdSet(c, ent[c].basis.version)
    /\ UNCHANGED <<lau, extWritten, overlap>>
\* UpdateService lines 159-160: conn.Set(servicePath, sBytes, stats.Version)
UpdateServiceSet(c) ==
    /\ ent[c].fn = "UpdateService"
    /\ ent[c].pc = "set"
    /\ UpdSet(c, ent[c].version)
    /\ UNCHANGED <<lau, extWritten, overlap>>

UpdateService(c) == UpdateServiceGet(c) \/ UpdateServiceAdd(c) \/ UpdateServiceSet(c)

\* The store before the calls: a service, or none, and a ServiceState under
\* a service
InitUpdate ==
    /\ InitStore
    /\ \A s \in ServiceIds, x \in StateIds :
          zk[ServiceStatePath(s, x)].exists => zk[ServicePath(s)].exists
    /\ \A p \in StorePaths : zk[p].exists => UnmarshalOk(zk[p].data)
    /\ \A h \in HostIds, x \in StateIds : zk[HostServiceStatePath(h, x)] = NoNode
    /\ lau = [c \in Callers |-> IdleFrame]
    /\ extWritten = [p \in StorePaths |-> 0]
    /\ overlap = FALSE
    /\ ent = [c \in Callers |-> IdleUpd]

-----------------------------------------------------------------------------
(* The snapshot-state node (part_003 636-765): one node at SNAPSHOT_PATH    *)
(* holding a JSON string, written by AddSnapshotState and                   *)
(* UpdateSnapshotState, read by GetSnapshotState, deleted by                *)
(* RemoveSnapshotState.                                                     *)

\* snapshot states: text, as sequences of characters
SnapshotStates == {<<>>, <<"r">>, <<"\"">>}

RECURSIVE JsonEscape(_)
JsonEscape(s) ==
    IF s = <<>> THEN <<>>
    ELSE (IF Head(s) \in {"\"", "\\"} THEN <<"\\", Head(s)>> ELSE <<Head(s)>>)
         \o JsonEscape(Tail(s))

RECURSIVE JsonEscaped(_)
JsonEscaped(b) ==
    IF b = <<>> THEN TRUE
    ELSE IF Head(b) = "\\" THEN Len(b) >= 2 /\ b[2] \in {"\"", "\\"}
                                /\ JsonEscaped(Tail(Tail(b)))
    ELSE Head(b) # "\"" /\ JsonEscaped(Tail(b))

RECURSIVE JsonUnescape(_)
JsonUnescape(b) ==
    IF b = <<>> THEN <<>>
    ELSE IF Head(b) = "\\" THEN <<b[2]>> \o JsonUnescape(Tail(Tail(b)))
    ELSE <<Head(b)>> \o JsonUnescape(Tail(b))

\* json.Marshal of a string: the text between quotes, quotes and backslashes
\* escaped
MarshalString(s) == <<"\"">> \o JsonEscape(s) \o <<"\"">>

\* json.Unmarshal into a *string
UnmarshalStringOk(b) ==
    /\ Len(b) >= 2
    /\ b[1] = "\"" /\ b[Len(b)] = "\""
    /\ JsonEscaped(SubSeq(b, 2, Len(b) - 1))
UnmarshalString(b) == JsonUnescape(SubSeq(b, 2, Len(b) - 1))

\* node: the snapshot-state node; the rest is the frame of the one caller.
\* seen: the last store error other than not-found of the current call;
\* via: the store call that wrote; existed: the node was there when the write
\* call began; quiet: no other writer since the last write call began;
\* last, lastOk: the state the last write call stored, if it returned nil
IdleSnodeFrame ==
    [node |-> NoNode, pc |-> "idle", fn |-> "none", s |-> <<>>, version |-> 0,
     err |-> "nil", out |-> <<>>, seen |-> "nil", via |-> "none",
     existed |-> FALSE, quiet |-> FALSE, last |-> <<>>, lastOk |-> FALSE,
     calls |-> 0, ext |-> 0]

SnodeGetErr == IF snode.node.exists THEN "nil" ELSE "ErrNoNode"
SnodeSetErr(version) ==
    IF ~snode.node.exists THEN "ErrNoNode"
    ELSE IF snode.node.version # version THEN "ErrBadVersion"
    ELSE "nil"

SnodeCall(fn, s, at) ==
    /\ snode.pc \in {"idle", "done"}
    /\ snode.calls < MaxOps
    /\ LET writes == fn \in {"AddSnapshotState", "UpdateSnapshotState"}
       IN  snode' = [snode EXCEPT !.pc = at, !.fn = fn, !.s = s, !.version = 0,
                                  !.err = "nil", !.out = <<>>, !.seen = "nil",
                                  !.via = IF writes THEN "none" ELSE snode.via,
                                  !.existed = IF writes THEN snode.node.exists
                                              ELSE snode.existed,
                                  !.quiet = IF writes THEN TRUE ELSE snode.quiet,
                                  !.lastOk = IF writes THEN FALSE ELSE snode.lastOk,
                                  !.calls = snode.calls + 1]

CallAddSnapshotState == \E s \in SnapshotStates : SnodeCall("AddSnapshotState", s, "create")
CallUpdateSnapshotState == \E s \in SnapshotStates : SnodeCall("UpdateSnapshotState", s, "exists")
CallGetSnapshotState == SnodeCall("GetSnapshotState", <<>>, "get")
CallRemoveSnapshotState == SnodeCall("RemoveSnapshotState", <<>>, "rmget")

SnodeReturns(e) == [snode EXCEPT !.pc = "done", !.err = e]
SnodeSees(f, fault) == [f EXCEPT !.seen = IF fault # "nil" THEN fault ELSE f.seen]

\* Mutant: a node that exists is left as it is
AddSnapshotStateCreateKeepsOld ==
    /\ snode.pc = "create"
    /\ \E fault \in StoreFaults :
          LET e == IF fault # "nil" THEN fault
                   ELSE IF snode.node.exists THEN "ErrNodeExists" ELSE "nil"
          IN  snode' =
                IF e = "nil"
                THEN [SnodeReturns("nil") EXCEPT !.node = Node(MarshalString(snode.s)),
                                                 !.via = "create",
                                                 !.last = snode.s, !.lastOk = TRUE]
                ELSE IF e = "ErrNodeExists" THEN SnodeReturns("nil")
                ELSE SnodeSees(SnodeReturns(e), fault)
\* AddSnapshotState lines 652-661, 673-679: conn.Create
AddSnapshotStateCreate ==
    /\ snode.pc = "create"
    /\ \E fault \in StoreFaults :
          LET e == IF fault # "nil" THEN fault
                   ELSE IF snode.node.exists THEN "ErrNodeExists" ELSE "nil"
          IN  snode' =
                IF e = "nil"
                THEN [SnodeReturns("nil") EXCEPT !.node = Node(MarshalString(snode.s)),
                                                 !.via = "create",
                                                 !.last = snode.s, !.lastOk = TRUE]
                ELSE IF e = "ErrNodeExists" THEN [snode EXCEPT !.pc = "addget"]
                ELSE SnodeSees(SnodeReturns(e), fault)

\* lines 662-666 and 726-729: conn.Get for the version
SnodeGetVersion(at, next) ==
    /\ snode.pc = at
    /\ \E fault \in StoreFaults :
          LET e == IF fault # "nil" THEN fault ELSE SnodeGetErr
          IN  snode' = IF e # "nil" THEN SnodeSees(SnodeReturns(e), fault)
                       ELSE [snode EXCEPT !.pc = next, !.version = snode.node.version]

\* lines 668-672 and 730-731: conn.Set with the version read
SnodeSetVersion(at) ==
    /\ snode.pc = at
    /\ \E fault \in StoreFaults :
          LET e == IF fault # "nil" THEN fault ELSE SnodeSetErr(snode.version)
          IN  snode' =
                IF e # "nil" THEN SnodeSees(SnodeReturns(e), fault)
                ELSE [SnodeReturns("nil") EXCEPT
                        !.node = [exists |-> TRUE, data |-> MarshalString(snode.s),
                                  version |-> snode.node.version + 1],
                        !.via = "set", !.last = snode.s, !.lastOk = TRUE]

AddSnapshotStateGet == SnodeGetVersion("addget", "addset")
AddSnapshotStateSet == SnodeSetVersion("addset")

AddSnapshotState == AddSnapshotStateCreate \/ AddSnapshotStateGet \/ AddSnapshotStateSet

\* UpdateSnapshotState lines 715-724: conn.ExistsW; an error leaves exists
\* false, and whatever the error the call goes on with AddSnapshotState
UpdateSnapshotStateExists ==
    /\ snode.pc = "exists"
    /\ \E fault \in StoreFaults :
          LET exists == fault = "nil" /\ snode.node.exists
          IN  snode' = SnodeSees([snode EXCEPT !.pc = IF exists THEN "updget" ELSE "create"],
                                 fault)

UpdateSnapshotStateGet == SnodeGetVersion("updget", "updset")
UpdateSnapshotStateSet == SnodeSetVersion("updset")

UpdateSnapshotState ==
    \/ UpdateSnapshotStateExists
    \/ UpdateSnapshotStateGet
    \/ UpdateSnapshotStateSet
    \/ (snode.fn = "UpdateSnapshotState" /\ AddSnapshotState)

\* GetSnapshotState lines 691-697
GetSnapshotState ==
    /\ snode.pc = "get"
    /\ \E fault \in StoreFaults :
          LET e == IF fault # "nil" THEN fault
                   ELSE IF SnodeGetErr # "nil" THEN SnodeGetErr
                   ELSE IF ~UnmarshalStringOk(snode.node.data) THEN "ErrUnmarshal"
                   ELSE "nil"
          IN  snode' = IF e # "nil" THEN SnodeSees(SnodeReturns(e), fault)
                       ELSE [SnodeReturns("nil") EXCEPT
                                !.out = UnmarshalString(snode.node.data)]

\* RemoveSnapshotState lines 745-754: conn.Get; not-found is success
RemoveSnapshotStateGet ==
    /\ snode.pc = "rmget"
    /\ \E fault \in StoreFaults :
          LET e == IF fault # "nil" THEN fault ELSE SnodeGetErr
          IN  snode' = IF e = "ErrNoNode" THEN SnodeReturns("nil")
                       ELSE IF e # "nil" THEN SnodeSees(SnodeReturns(e), fault)
                       ELSE [snode EXCEPT !.pc = "rmdel", !.version = snode.node.version]

\* RemoveSnapshotState lines 756-762: conn.Delete with the version read
RemoveSnapshotStateDelete ==
    /\ snode.pc = "rmdel"
    /\ \E fault \in StoreFaults :
          LET e == IF fault # "nil" THEN fault ELSE SnodeSetErr(snode.version)
          IN  snode' = IF e # "nil" THEN SnodeSees(SnodeReturns(e), fault)
                       ELSE [SnodeReturns("nil") EXCEPT !.node = NoNode, !.quiet = FALSE,
                                                        !.lastOk = FALSE]

RemoveSnapshotState == RemoveSnapshotStateGet \/ RemoveSnapshotStateDelete

\* another client writes, creates or deletes the snapshot-state node
OtherSnapshotWrite ==
    /\ snode.ext < MaxExtWrites
    /\ \E n \in {NoNode} \cup
                {[exists |-> TRUE, data |-> MarshalString(s),
                  version |-> IF snode.node.exists THEN snode.node.version + 1 ELSE 0] :
                     s \in SnapshotStates} :
          /\ n # snode.node
          /\ snode' = [snode EXCEPT !.node = n, !.quiet = FALSE, !.ext = snode.ext + 1]

\* the node missing, holding a snapshot state, or holding bytes that are no
\* JSON string
InitSnode ==
    \E n \in {NoNode, Node(Garbage)} \cup {Node(MarshalString(s)) : s \in SnapshotStates} :
        snode = [IdleSnodeFrame EXCEPT !.node = n]

-----------------------------------------------------------------------------
(* The path functions (part_003 286-300) applied to identifiers that are    *)
(* any strings: sequences of characters, "/" among them, the empty string   *)
(* included.                                                                *)

IdChars == {"a", "/"}
Ids == UNION {[1..n -> IdChars] : n \in 0..MaxIdLen}

PathFunctions == {"HostPath", "ServicePath", "ServiceStatePath", "HostServiceStatePath"}

\* the path a function gives; the one-argument functions take a
PathOf(fn, a, b) ==
    CASE fn = "HostPath" -> HostPath(a)
      [] fn = "ServicePath" -> ServicePath(a)
      [] fn = "ServiceStatePath" -> ServiceStatePath(a, b)
      [] fn = "HostServiceStatePath" -> HostServiceStatePath(a, b)

IdlePfFrame == [at |-> "idle", fn |-> "none", a |-> <<>>, b |-> <<>>, out |-> <<>>]

PathApply(fn) ==
    /\ pf.at = "idle"
    /\ pf' = [pf EXCEPT !.at = "done", !.fn = fn, !.out = PathOf(fn, pf.a, pf.b)]

ApplyHostPath == PathApply("HostPath")
ApplyServicePath == PathApply("ServicePath")
ApplyServiceStatePath == PathApply("ServiceStatePath")
ApplyHostServiceStatePath == PathApply("HostServiceStatePath")

InitPaths == \E a \in Ids, b \in Ids : pf = [IdlePfFrame EXCEPT !.a = a, !.b = b]

IdlePf == pf = IdlePfFrame

-----------------------------------------------------------------------------
(* Specifications *)

PrefixClosed(t) == \A n \in t : Dir(n) \in t

InitListen ==
    /\ tree \in {t \in SUBSET (Nodes \cup {Root}) : Root \in t /\ PrefixClosed(t)}
    /\ connOk = TRUE
    /\ shutdown = FALSE
    /\ pc = "ready"
    /\ rstack = <<Frame(ListenPath, "check1")>>
    /\ readyErr = "nil"
    /\ watch = NoWatch
    /\ ready = [closed |-> FALSE, buf |-> <<>>]
    /\ ishutdown = FALSE
    /\ processing = {}
    /\ workers = [k \in Kids |-> [running |-> 0, sending |-> 0]]
    /\ obs = [spawns |-> [k \in Kids |-> 0], doneRuns |-> 0, closes |-> 0,
              closedReady |-> 0, errLogged |-> FALSE, exit |-> "none",
              listed |-> FALSE, early |-> FALSE, kidsChanged |-> FALSE,
              waited |-> FALSE, event |-> "none",
              ever |-> tree \cap Ancestors(ListenPath)]

\* the entity store at rest, for the specifications of the listener
IdleStore ==
    /\ zk = [p \in StorePaths |-> NoNode]
    /\ lau = [c \in Callers |-> IdleFrame]
    /\ extWritten = [p \in StorePaths |-> 0]
    /\ overlap = FALSE

\* the listener not started, for the specifications of the entity store
IdleListen ==
    /\ tree = {Root}
    /\ connOk = TRUE
    /\ shutdown = FALSE
    /\ pc = "returned"
    /\ rstack = <<>>
    /\ readyErr = "nil"
    /\ watch = NoWatch
    /\ ready = [closed |-> FALSE, buf |-> <<>>]
    /\ ishutdown = FALSE
    /\ processing = {}
    /\ workers = [k \in Kids |-> [running |-> 0, sending |-> 0]]
    /\ obs = [spawns |-> [k \in Kids |-> 0], doneRuns |-> 0, closes |-> 0,
              closedReady |-> 0, errLogged |-> FALSE, exit |-> "none",
              listed |-> FALSE, early |-> FALSE, kidsChanged |-> FALSE,
              waited |-> FALSE, event |-> "none", ever |-> {Root}]

\* Start not called, for the specifications of the other parts
IdleStart ==
    /\ start = [pc |-> "returned", master |-> FALSE, listeners |-> 0, next |-> 1,
                wg |-> 0, done |-> FALSE, _shutdown |-> FALSE, shutdown |-> FALSE]
    /\ lis = [l \in Listeners |-> IdleListener]
    /\ sobs = [case1 |-> "none", readyAt1 |-> FALSE, trigger |-> "none"]

\* RemoveService not called
IdleRemove == rm = IdleRemoveFrame

\* Snapshot not called
IdleSnap ==
    /\ snap = IdleSnapFrame
    /\ req = NoRequest

\* no AddServiceState / RemoveServiceState call
IdleEntFrames == ent = [c \in Callers |-> IdleEnt]

\* no operation on the snapshot-state node
IdleSnode == snode = IdleSnodeFrame

\* the operations of the entity layer not called
IdleDao == IdleEntFrames /\ IdleSnode /\ IdlePf

InitLAU == InitStore /\ IdleListen /\ IdleStart /\ IdleRemove /\ IdleSnap /\ IdleDao

NextLAU ==
    \/ \E c \in Callers : CallLoadAndUpdateServiceState(c) /\ UNCHANGED <<listenVars, startVars, removeVars, snapVars, daoVars>>
    \/ \E c \in Callers : CallLoadAndUpdateService(c) /\ UNCHANGED <<listenVars, startVars, removeVars, snapVars, daoVars>>
    \/ \E c \in Callers : CallLoadAndUpdateHss(c) /\ UNCHANGED <<listenVars, startVars, removeVars, snapVars, daoVars>>
    \/ \E c \in Callers : TerminateHostService(c) /\ UNCHANGED <<listenVars, startVars, removeVars, snapVars, daoVars>>
    \/ \E c \in Callers : LoadAndUpdateServiceState(c) /\ UNCHANGED <<listenVars, startVars, removeVars, snapVars, daoVars>>
    \/ \E c \in Callers : loadAndUpdateService(c) /\ UNCHANGED <<listenVars, startVars, removeVars, snapVars, daoVars>>
    \/ \E c \in Callers : loadAndUpdateHss(c) /\ UNCHANGED <<listenVars, startVars, removeVars, snapVars, daoVars>>
    \/ ExtWrite /\ UNCHANGED <<listenVars, startVars, removeVars, snapVars, daoVars>>

SpecLAU == InitLAU /\ [][NextLAU]_vars

InitL == InitListen /\ IdleStore /\ IdleStart /\ IdleRemove /\ IdleSnap /\ IdleDao

NextListen ==
    \/ Listen
    \/ SpawnStops
    \/ SpawnExits
    \/ Create
    \/ Delete
    \/ Shutdown
    \/ ConnLost

SpecListen == InitL /\ [][NextListen]_vars

\* The Go scheduler runs every goroutine that can take a step; a worker that
\* honours the broadcast returns once _shutdown is closed.  The environment
\* (other clients, the caller's shutdown) is under no obligation.
SpecListenFair ==
    /\ InitL
    /\ [][NextListen]_vars
    /\ WF_vars(Listen)
    /\ WF_vars(SpawnStops)

\* A select whose case is ready again and again takes it in the end (Go
\* picks among the ready cases at random), and the goroutines blocked on
\* done are served in turn
SpecListenSelectFair ==
    /\ InitL
    /\ [][NextListen]_vars
    /\ WF_vars(Listen)
    /\ WF_vars(SpawnStops)
    /\ \A k \in Kids : SF_vars(ListenDone /\ workers'[k].sending < workers[k].sending)
    /\ SF_vars(ListenShutdown)

InitS == InitStart /\ IdleStore /\ IdleListen /\ IdleRemove /\ IdleSnap /\ IdleDao

NextStart ==
    \/ Start /\ UNCHANGED <<storeVars, listenVars, removeVars, snapVars, daoVars>>
    \/ \E l \in Listeners :
          ListenOf(l) /\ UNCHANGED <<storeVars, listenVars, removeVars, snapVars, daoVars>>
    \/ \E l \in Listeners :
          ListenMeets(l) /\ UNCHANGED <<storeVars, listenVars, removeVars, snapVars, daoVars>>
    \/ \E l \in Listeners :
          WorkerStops(l) /\ UNCHANGED <<storeVars, listenVars, removeVars, snapVars, daoVars>>
    \/ NilMasterEnds /\ UNCHANGED <<storeVars, listenVars, removeVars, snapVars, daoVars>>
    \/ ExternalShutdown /\ UNCHANGED <<storeVars, listenVars, removeVars, snapVars, daoVars>>

SpecStart == InitS /\ [][NextStart]_vars

InitR == InitRemove /\ IdleListen /\ IdleStart /\ IdleSnap /\ IdleDao

NextRemove ==
    \/ RemoveService /\ UNCHANGED <<listenVars, startVars, snapVars, daoVars>>
    \/ loadAndUpdateService(Remover) /\ UNCHANGED <<listenVars, startVars, removeVars, snapVars, daoVars>>
    \/ Tick /\ UNCHANGED <<listenVars, startVars, snapVars, daoVars>>
    \/ SchedulerAdds /\ UNCHANGED <<listenVars, startVars, snapVars, daoVars>>
    \/ SchedulerRemoves /\ UNCHANGED <<listenVars, startVars, snapVars, daoVars>>
    \/ OtherDelete /\ UNCHANGED <<listenVars, startVars, snapVars, daoVars>>
    \/ OtherWrite /\ UNCHANGED <<listenVars, startVars, snapVars, daoVars>>

SpecRemove == InitR /\ [][NextRemove]_vars

\* RemoveService runs in its caller's goroutine and time passes
SpecRemoveFair ==
    /\ InitR
    /\ [][NextRemove]_vars
    /\ WF_vars(RemoveService /\ UNCHANGED <<listenVars, startVars, snapVars, daoVars>>)
    /\ WF_vars(loadAndUpdateService(Remover)
                /\ UNCHANGED <<listenVars, startVars, removeVars, snapVars, daoVars>>)
    /\ WF_vars(Tick /\ UNCHANGED <<listenVars, startVars, snapVars, daoVars>>)

InitSn == InitSnap /\ IdleStore /\ IdleListen /\ IdleStart /\ IdleRemove /\ IdleDao

NextSnap ==
    \/ Snapshot /\ UNCHANGED <<storeVars, listenVars, startVars, removeVars, daoVars>>
    \/ Fulfill /\ UNCHANGED <<storeVars, listenVars, startVars, removeVars, daoVars>>

SpecSnap == InitSn /\ [][NextSnap]_vars

InitSh == InitShadow /\ IdleListen /\ IdleStart /\ IdleRemove /\ IdleSnap /\ IdleSnode /\ IdlePf

NextShadow ==
    \/ \E c \in Callers : CallAddServiceState(c)
          /\ UNCHANGED <<listenVars, startVars, removeVars, snapVars, snode, pf>>
    \/ \E c \in Callers : CallRemoveServiceState(c)
          /\ UNCHANGED <<listenVars, startVars, removeVars, snapVars, snode, pf>>
    \/ \E c \in Callers : AddServiceState(c)
          /\ UNCHANGED <<listenVars, startVars, removeVars, snapVars, snode, pf>>
    \/ \E c \in Callers : RemoveServiceState(c)
          /\ UNCHANGED <<listenVars, startVars, removeVars, snapVars, snode, pf>>
    \/ ExtWrite /\ UNCHANGED <<listenVars, startVars, removeVars, snapVars, daoVars>>

SpecShadow == InitSh /\ [][NextShadow]_vars

InitU == InitUpdate /\ IdleListen /\ IdleStart /\ IdleRemove /\ IdleSnap /\ IdleSnode /\ IdlePf

NextUpdate ==
    \/ \E c \in Callers : CallUpdateServiceState(c)
          /\ UNCHANGED <<listenVars, startVars, removeVars, snapVars, snode, pf>>
    \/ \E c \in Callers : CallUpdateService(c)
          /\ UNCHANGED <<listenVars, startVars, removeVars, snapVars, snode, pf>>
    \/ \E c \in Callers : UpdateServiceState(c)
          /\ UNCHANGED <<listenVars, startVars, removeVars, snapVars, snode, pf>>
    \/ \E c \in Callers : UpdateService(c)
          /\ UNCHANGED <<listenVars, startVars, removeVars, snapVars, snode, pf>>
    \/ ExtWrite /\ UNCHANGED <<listenVars, startVars, removeVars, snapVars, daoVars>>

SpecUpdate == InitU /\ [][NextUpdate]_vars

InitSs == InitSnode /\ IdleStore /\ IdleListen /\ IdleStart /\ IdleRemove /\ IdleSnap /\ IdleEntFrames /\ IdlePf

NextSnapState ==
    \/ CallAddSnapshotState /\ UNCHANGED <<storeVars, listenVars, startVars, removeVars, snapVars, ent, pf>>
    \/ CallUpdateSnapshotState /\ UNCHANGED <<storeVars, listenVars, startVars, removeVars, snapVars, ent, pf>>
    \/ CallGetSnapshotState /\ UNCHANGED <<storeVars, listenVars, startVars, removeVars, snapVars, ent, pf>>
    \/ CallRemoveSnapshotState /\ UNCHANGED <<storeVars, listenVars, startVars, removeVars, snapVars, ent, pf>>
    \/ (snode.fn = "AddSnapshotState" /\ AddSnapshotState)
          /\ UNCHANGED <<storeVars, listenVars, startVars, removeVars, snapVars, ent, pf>>
    \/ UpdateSnapshotState /\ UNCHANGED <<storeVars, listenVars, startVars, removeVars, snapVars, ent, pf>>
    \/ GetSnapshotState /\ UNCHANGED <<storeVars, listenVars, startVars, removeVars, snapVars, ent, pf>>
    \/ RemoveSnapshotState /\ UNCHANGED <<storeVars, listenVars, startVars, removeVars, snapVars, ent, pf>>
    \/ OtherSnapshotWrite /\ UNCHANGED <<storeVars, listenVars, startVars, removeVars, snapVars, ent, pf>>

SpecSnapState == InitSs /\ [][NextSnapState]_vars

InitP == InitPaths /\ IdleStore /\ IdleListen /\ IdleStart /\ IdleRemove /\ IdleSnap /\ IdleEntFrames /\ IdleSnode

NextPaths ==
    \/ ApplyHostPath /\ UNCHANGED <<storeVars, listenVars, startVars, removeVars, snapVars, ent, snode>>
    \/ ApplyServicePath /\ UNCHANGED <<storeVars, listenVars, startVars, removeVars, snapVars, ent, snode>>
    \/ ApplyServiceStatePath /\ UNCHANGED <<storeVars, listenVars, startVars, removeVars, snapVars, ent, snode>>
    \/ ApplyHostServiceStatePath /\ UNCHANGED <<storeVars, listenVars, startVars, removeVars, snapVars, ent, snode>>

SpecPaths == InitP /\ [][NextPaths]_vars

\* Snapshot runs in its caller's goroutine, which the Go scheduler keeps
\* running; the fulfiller is under no obligation.
SpecSnapFair ==
    /\ InitSn
    /\ [][NextSnap]_vars
    /\ WF_vars(Snapshot /\ UNCHANGED <<storeVars, listenVars, startVars, removeVars, daoVars>>)

\* The Go scheduler runs every goroutine that can take a step, and a select
\* whose case stays ready is eventually taken; a worker that honours the
\* broadcast returns once the listener's _shutdown is closed.  The caller's
\* shutdown and the other clients of the store are under no obligation.
SpecStartFair ==
    /\ InitS
    /\ [][NextStart]_vars
    /\ WF_vars(Start /\ UNCHANGED <<storeVars, listenVars, removeVars, snapVars, daoVars>>)
    /\ \A l \in Listeners :
          /\ WF_vars(ListenOf(l) /\ UNCHANGED <<storeVars, listenVars, removeVars, snapVars, daoVars>>)
          /\ WF_vars(WorkerStops(l) /\ UNCHANGED <<storeVars, listenVars, removeVars, snapVars, daoVars>>)
    /\ WF_vars(NilMasterEnds /\ UNCHANGED <<storeVars, listenVars, removeVars, snapVars, daoVars>>)

-----------------------------------------------------------------------------
(* Properties of LoadAndUpdate (SpecLAU) *)

Finished(c) == lau[c].at = "done"
Wrote(c) == Finished(c) /\ lau[c].sets = 1
Output(c) == Marshal(Mutate(lau[c].mutator, Unmarshal(lau[c].read)))

\* two calls of the callers p and q on one path that both reached their Set,
\* with no outside writer on the path
TwoCalls ==
    /\ Wrote("p") /\ Wrote("q")
    /\ lau["p"].path = lau["q"].path
    /\ extWritten[lau["p"].path] = 0

OneWins(w, l) ==
    /\ lau[w].err = "nil"
    /\ lau[l].err = "ErrBadVersion"
    /\ zk[lau[w].path].data = Output(w)
    /\ zk[lau[w].path].version = lau[w].version + 1

\* C1 as stated: two LoadAndUpdate calls that were in progress at the same
\* time on one path end with exactly one success and one version conflict,
\* the store holding the successful call's output.
C1_ConcurrentCallsOneSuccess ==
    (overlap /\ TwoCalls) => (OneWins("p", "q") \/ OneWins("q", "p"))

\* C1 amended: when both calls read the node before either wrote it (they
\* read the same version), exactly one succeeds, the other returns the
\* version conflict, and the store holds the successful call's mutator applied
\* to the value it read; when one call's Set comes before the other's Get,
\* both succeed, the later one on top of the earlier one's output.
C1_VersionSafety ==
    TwoCalls =>
        IF lau["p"].version = lau["q"].version
        THEN OneWins("p", "q") \/ OneWins("q", "p")
        ELSE /\ lau["p"].err = "nil" /\ lau["q"].err = "nil"
             /\ \E w \in Callers, l \in Callers :
                   /\ lau[l].version = lau[w].version + 1
                   /\ lau[l].read = Output(w)
                   /\ zk[lau[l].path].data = Output(l)

C1_Witness ==
    /\ overlap /\ TwoCalls
    /\ lau["p"].version = lau["q"].version
    /\ lau["p"].mutator # lau["q"].mutator
    /\ OneWins("q", "p")
    /\ Output("p") # Output("q")

\* C2: a call whose node was written between its Get and its Set (the version
\* it read is no longer the node's) returns the conflict error at its Set,
\* leaves the store as the other writer left it, and has made one Get and one
\* Set only.
C2_ConflictNoRetry ==
    [][\A c \in Callers :
          (lau[c].at = "set" /\ lau'[c] # lau[c]
             /\ zk[lau[c].path].version # lau[c].version)
          => /\ lau'[c].at = "done"
             /\ lau'[c].err = "ErrBadVersion"
             /\ lau'[c].gets = 1 /\ lau'[c].sets = 1
             /\ zk' = zk]_vars

C2_Witness ==
    \E c \in Callers :
        /\ Finished(c) /\ lau[c].err = "ErrBadVersion"
        /\ lau[c].gets = 1 /\ lau[c].sets = 1
        /\ extWritten[lau[c].path] = 1
        /\ zk[lau[c].path].data # Output(c)
        /\ zk[lau[c].path].version = lau[c].version + 1

-----------------------------------------------------------------------------
(* Properties of Listen (SpecListen, SpecListenFair) *)

Returned == pc = "returned"
TearingDown == pc \in {"defer", "drain", "returned"}
PathPresent == Ancestors(ListenPath) \subseteq tree
StableKids == ~obs.kidsChanged /\ ChildNames(ListenPath) = Kids

\* C3 as stated: with children {A, B} that never change, Spawn is invoked
\* at most once for each child over the whole execution.
C3_SpawnTwiceNeverMore ==
    StableKids => \A k \in Kids : obs.spawns[k] <= 1

\* C3 amended: with children {A, B} that never change and no Spawn that
\* returns before the teardown, Spawn is invoked at most once for each child,
\* and exactly once for A and once for B from the first listing on.
C3_SpawnOnce ==
    (StableKids /\ ~obs.early) =>
        /\ \A k \in Kids : obs.spawns[k] <= 1
        /\ obs.listed => \A k \in Kids : obs.spawns[k] = 1

C3_Witness ==
    /\ StableKids /\ ~obs.early
    /\ Returned
    /\ \A k \in Kids : obs.spawns[k] = 1

\* C4: at every moment at most one Spawn invocation is running for a child.
C4_OneWorkerPerChild ==
    \A k \in Kids : workers[k].running <= 1

\* the loop lists again while the worker of a present child is running
C4_Witness ==
    /\ pc = "list"
    /\ obs.listed
    /\ \E k \in Kids :
          /\ k \in ChildNames(ListenPath)
          /\ k \in processing
          /\ workers[k].running = 1

\* C5: the ready channel is closed only when the listener's path and every
\* ancestor of it have been created.
C5_ReadyOnlyWhenCreated ==
    ready.closed => Ancestors(ListenPath) \subseteq obs.ever

\* readiness after the barrier has waited for a node to be created
C5_Witness ==
    /\ ready.closed
    /\ obs.waited
    /\ PathPresent

\* C6: if the path and its ancestors are created and stay, the connection
\* holds and no shutdown is signalled, the Ready barrier returns nil.
C6_ReadyEventuallyReturns ==
    (<>[]PathPresent /\ [](connOk /\ ~shutdown)) => <>(pc # "ready")

\* C7: the ready channel is signalled exactly once: closed only after the
\* barrier and the hook both returned nil, and otherwise sent one error, no
\* worker being spawned, before Listen returns.
C7_ReadySignalledOnce ==
    /\ obs.closedReady + Len(ready.buf) <= 1
    /\ ready.closed <=> obs.closedReady = 1
    /\ pc \in {"ready", "hook", "fail"} => ~ready.closed /\ ready.buf = <<>>
    /\ ready.closed => readyErr = "nil" /\ obs.exit \notin {"barrier", "hook"}
    /\ pc \in {"list", "select", "defer", "drain"} => ready.closed
    /\ Returned =>
          \/ ready.closed /\ ready.buf = <<>>
          \/ /\ ~ready.closed
             /\ ready.buf = <<readyErr>> /\ readyErr # "nil"
             /\ obs.exit \in {"barrier", "hook"}
             /\ processing = {}
             /\ \A k \in Kids : obs.spawns[k] = 0 /\ workers[k].running = 0

C7_Witness ==
    /\ Returned
    /\ ready.buf = <<"ErrHook">>
    /\ ~ready.closed

\* C8: after readiness Listen returns only when every worker it spawned has
\* been received from the completion channel; the internal shutdown channel
\* is closed once, before the drain.
C8_DrainBeforeReturn ==
    /\ obs.closes <= 1
    /\ ishutdown <=> obs.closes = 1
    /\ pc \in {"drain", "returned"} /\ ready.closed => ishutdown
    /\ pc \in {"list", "select", "defer"} => ~ishutdown
    /\ Returned /\ ready.closed =>
          /\ processing = {}
          /\ \A k \in Kids : workers[k].running = 0 /\ workers[k].sending = 0

C8_Witness ==
    /\ Returned /\ ready.closed
    /\ \A k \in Kids : obs.spawns[k] >= 1

\* C9 as stated: whenever Listen has returned, Done has been run.
C9_DoneOnEveryExit ==
    Returned => obs.doneRuns >= 1

\* C9 amended: Done is run, once, on every exit after readiness was signalled
\* (ChildrenW error, deletion of the watched node, shutdown); when the Ready
\* barrier or the readiness hook fails, Listen returns without running Done.
C9_DoneOnExitAfterReady ==
    /\ obs.doneRuns <= 1
    /\ Returned =>
          IF ready.closed
          THEN obs.exit \in {"children", "deleted", "shutdown"} /\ obs.doneRuns = 1
          ELSE obs.exit \in {"barrier", "hook"} /\ obs.doneRuns = 0
    /\ pc = "drain" => obs.doneRuns = 1

C9_Witness ==
    /\ Returned
    /\ obs.exit = "children"
    /\ obs.doneRuns = 1

\* C10: when Listen receives NodeDeleted from its children watch it spawns
\* no more, tears down as for a shutdown (Done, broadcast, drain), reports no
\* error, and, with workers that stop on the broadcast, returns.
DeletedTeardown ==
    obs.event = "deleted" =>
        /\ TearingDown
        /\ obs.exit = "deleted"
        /\ ~obs.errLogged /\ ready.buf = <<>>
        /\ pc \in {"drain", "returned"} => ishutdown /\ obs.doneRuns = 1
        /\ Returned => processing = {} /\ \A k \in Kids : workers[k].running = 0

-----------------------------------------------------------------------------
(* Properties of Start (SpecStart, SpecStartFair) *)

\* Start has left its first select and the launch loop
PastLaunch == start.pc \in {"select2", "close", "wait", "returned"}
AllLaunched == \A d \in 1..start.listeners : Launched(d)
NoneLaunched == \A d \in Dependents : ~Launched(d)

\* C11 as stated: no dependent listener is launched before the master has
\* signalled readiness, and once the master is ready (its ready channel was
\* closed when Start's first select chose) every dependent is launched.
C11_LaunchedOnceMasterReady ==
    /\ \A d \in Dependents : Launched(d) => lis[Master].ready.closed
    /\ (sobs.readyAt1 /\ PastLaunch) => AllLaunched

\* C11, amended: no dependent listener is launched before the master has
\* signalled readiness; when Start's first select receives the readiness
\* from the ready channel every dependent is launched, and when it takes the
\* master's exit or the external shutdown instead, none is.
C11_LaunchedWhenReadinessReceived ==
    /\ \A d \in Dependents :
          Launched(d) => (lis[Master].ready.closed /\ sobs.case1 = "nil")
    /\ (sobs.case1 = "nil" /\ PastLaunch) => AllLaunched
    /\ sobs.case1 \in {"done", "shutdown"} => NoneLaunched

C11_Witness ==
    /\ sobs.case1 = "nil"
    /\ PastLaunch
    /\ start.listeners = MaxListeners
    /\ AllLaunched

\* C12: when the master's startup fails (Ready or the readiness hook report
\* an error, which Listen puts on the ready channel before it returns), no
\* dependent listener is ever launched, whichever of ready, done and
\* shutdown Start's selects take.
C12_NoDependentAfterFailedStartup ==
    lis[Master].failed => NoneLaunched

C12_Witness ==
    /\ lis[Master].failed
    /\ sobs.case1 = "err"
    /\ start.listeners > 0
    /\ start.pc = "returned"

\* C13 as stated: when Start has returned, the Listen call of the master and
\* of every dependent it launched has returned, worker drain included.
C13_StartJoinsEveryListener ==
    start.pc = "returned" =>
        \A l \in Listeners :
            (Launched(l) /\ lis[l].pc # "nilwait") => ListenReturned(l)

\* the part of C13 that holds: the dependents are joined
C13_StartJoinsDependents ==
    start.pc = "returned" => \A d \in Dependents : Launched(d) => Exited(d)

Triggered == start.shutdown \/ ListenReturned(Master)
AllUnwound ==
    /\ start.pc = "returned"
    /\ \A l \in Listeners : Launched(l) => Exited(l)

\* C14: once the external shutdown is signalled or the master's Listen has
\* returned, Start closes its broadcast channel _shutdown; with workers that
\* stop on the broadcast every launched listener then exits and Start
\* returns.
C14_ShutdownReachesEveryListener ==
    /\ Triggered ~> start._shutdown
    /\ Triggered ~> AllUnwound

C14_Witness ==
    /\ AllUnwound
    /\ sobs.trigger = "shutdown"
    /\ start.listeners = MaxListeners
    /\ AllLaunched

-----------------------------------------------------------------------------
(* Properties of RemoveService (SpecRemove) *)

RemovedPath == ServicePath(rm.id)
RemoveReturned == rm.pc = "done"

\* C15: RemoveService deletes the service node without waiting when its
\* first listing shows no children; when children are listed, it waits and
\* lists again at every change, and once a listing is empty (the last child
\* is gone) it deletes the node and returns nil.  The store is taken as left
\* alone by other clients after that last listing.
C15_DeletesOnceDrained ==
    /\ rm.pc = "select" => rm.children # {}
    /\ rm.first = "empty" => ~rm.waited
    /\ (RemoveReturned /\ rm.listed /\ rm.children = {} /\ ~rm.touched) =>
          (rm.err = "nil" /\ rm.deleted /\ ~zk[RemovedPath].exists)

C15_Witness ==
    /\ RemoveReturned
    /\ rm.first = "children"
    /\ rm.waited
    /\ rm.err = "nil"
    /\ rm.deleted
    /\ ~zk[RemovedPath].exists

\* C16: when the 30-second wait elapses (the timer case of the select is
\* taken, which is the only way on when no change arrived), RemoveService
\* returns the timeout error that names the service's path; it has listed
\* children and has not called Delete.
C16_TimeoutNamesPathAndKeepsNode ==
    /\ [](rm.timedOut =>
            /\ RemoveReturned
            /\ rm.err = TimedOut(ServicePath(rm.id))
            /\ rm.timer = DrainWait
            /\ rm.children # {}
            /\ ~rm.deleteCalled
            /\ ~rm.deleted)
    /\ [][(rm.pc = "select" /\ rm.timer = DrainWait /\ rm.watch = "armed"
             /\ rm'.pc # "select") => (rm'.timedOut /\ zk' = zk)]_vars

C16_Witness ==
    /\ rm.timedOut
    /\ rm.err = TimedOut(ServicePath(rm.id))
    /\ Children(rm.id) # {}
    /\ zk[RemovedPath].exists

StopWritten ==
    /\ lau[Remover].at = "done"
    /\ lau[Remover].path = ServicePath(rm.id)
    /\ lau[Remover].err = "nil"
    /\ lau[Remover].sets = 1
    /\ Unmarshal(lau[Remover].bytes).DesiredState = SVC_STOP

\* C17: RemoveService lists the children and calls Delete only after its
\* version-checked Set of DesiredState = STOP has succeeded; when the
\* update fails, RemoveService returns that error and has neither listed
\* nor deleted.
C17_StopBeforeListAndDelete ==
    /\ []((rm.listed \/ rm.deleteCalled \/ rm.pc \in {"list", "select", "load", "delete"})
            => StopWritten)
    /\ []((lau[Remover].at = "done" /\ lau[Remover].err # "nil") =>
            /\ ~rm.listed /\ ~rm.deleteCalled
            /\ rm.pc \in {"stop", "done"}
            /\ RemoveReturned => rm.err = lau[Remover].err)
    /\ [][(lau[Remover].at = "set" /\ lau'[Remover].at = "done"
             /\ lau'[Remover].err = "nil") =>
              /\ zk[RemovedPath].version = lau[Remover].version
              /\ zk'[RemovedPath].data = lau[Remover].bytes
              /\ ~rm.listed /\ ~rm.deleteCalled]_vars

C17_Witness ==
    /\ RemoveReturned
    /\ lau[Remover].err = "ErrBadVersion"
    /\ rm.err = "ErrBadVersion"
    /\ ~rm.listed

ChildrenNow == [s \in ServiceIds |-> Children(s)]

\* C31: every listing of the children, the one after a children-watch event
\* included, starts a new 30-second wait; the timeout is taken only when 30
\* seconds have passed since the last listing with no watch event received;
\* when the children change only finitely many times RemoveService returns
\* (nil, the timeout or a store error).
C31_TimerRestartsAndTerminates ==
    /\ [][(rm.pc = "list" /\ rm'.pc = "select") => rm'.timer = 0]_vars
    /\ [][(rm.pc = "select" /\ rm'.pc = "list") =>
            (rm.watch = "fired" /\ rm'.eventSeen /\ ~rm'.timedOut)]_vars
    /\ [][(rm.pc = "select" /\ rm'.pc = "done") =>
            (rm.timer = DrainWait /\ rm'.timedOut)]_vars
    /\ [](rm.pc = "select" => rm.timer <= DrainWait)
    /\ (<>[][ChildrenNow' = ChildrenNow]_vars => <>RemoveReturned)

C31_Witness ==
    /\ RemoveReturned
    /\ rm.eventSeen /\ rm.timedOut
    /\ rm.timer = DrainWait
    /\ rm.err = TimedOut(ServicePath(rm.id))

RemoveFailed == RemoveReturned /\ (rm.timedOut \/ rm.err # "nil")

-----------------------------------------------------------------------------
(* Properties of Snapshot (SpecSnap) *)

SnapshotReturned == snap.pc = "returned"

\* the fulfiller wrote while Snapshot was in its polling loop and before the
\* ceiling, and no load of the request failed
WrittenWhileWaiting ==
    /\ snap.writes > 0
    /\ snap.wWaiting
    /\ snap.wAt < SnapshotCeiling
    /\ ~snap.failedLoad

\* C19 as stated: a label L (with empty error) written while Snapshot waits
\* and before the ceiling is returned, with success, by the next poll.
C19_LabelReturnedAtNextPoll ==
    (SnapshotReturned /\ WrittenWhileWaiting /\ snap.writes = 1
        /\ req.label # "" /\ req.error = "") =>
            (snap.err = "nil" /\ snap.label = req.label /\ snap.polled)

\* what holds of C19: a poll that follows the write returns the label
C19_LabelReturnedIfPolled ==
    (SnapshotReturned /\ WrittenWhileWaiting /\ snap.writes = 1 /\ snap.polled
        /\ req.label # "" /\ req.error = "") =>
            (snap.err = "nil" /\ snap.label = req.label)

\* C20 as stated: an error E written while Snapshot waits is returned as
\* the error and the caller's label is left alone; a failed load is
\* returned at once.
C20_ErrorReturnedExactly ==
    /\ (SnapshotReturned /\ WrittenWhileWaiting /\ snap.writes = 1 /\ req.error # "") =>
            (snap.err = req.error /\ snap.label = snap.label0)
    /\ snap.failedLoad =>
            (SnapshotReturned /\ snap.err \in {"ErrLoad", "ErrNoNode"}
                /\ snap.label = snap.label0)

\* what holds of C20: a poll that follows the write returns the error
C20_ErrorReturnedIfPolled ==
    /\ (SnapshotReturned /\ WrittenWhileWaiting /\ snap.writes = 1 /\ snap.polled
            /\ req.error # "") =>
            (snap.err = req.error /\ snap.label = snap.label0)
    /\ snap.failedLoad =>
            (SnapshotReturned /\ snap.err \in {"ErrLoad", "ErrNoNode"}
                /\ snap.label = snap.label0)

\* Snapshot has created its request and no load of it has failed
RequestServed == snap.pc \in {"loop", "sleep", "returned"} /\ req.exists /\ ~snap.failedLoad

\* C21: when no process writes a result field of the request (and every
\* reload succeeds), Snapshot returns the timeout error naming the request
\* when the 60-second ceiling has elapsed, after 60 one-second polls: it
\* does not return success, does not return earlier, and does not poll
\* beyond the ceiling; a waiting Snapshot always returns.
C21_TimeoutAtCeiling ==
    /\ []((SnapshotReturned /\ RequestServed /\ snap.writes = 0) =>
            /\ snap.err = SnapshotTimedOut(snap.serviceId)
            /\ snap.label = snap.label0
            /\ snap.t = SnapshotCeiling
            /\ snap.polls * PollInterval = SnapshotCeiling)
    /\ [](snap.polls * PollInterval <= SnapshotCeiling /\ snap.t <= SnapshotCeiling)
    /\ (SnapshotWaiting ~> SnapshotReturned)

C21_Witness ==
    /\ SnapshotReturned
    /\ snap.writes = 0
    /\ RequestServed
    /\ snap.err = SnapshotTimedOut(snap.serviceId)
    /\ snap.polls * PollInterval = SnapshotCeiling
    /\ req = NewSnapshotRequest

\* C22: once the request node is created, Snapshot only reads it: the node
\* changes only by the fulfiller's writes, and on every return path of the
\* polling loop it still exists, with the fulfiller's content or, when the
\* fulfiller never wrote, as it was created.
C22_RequestOnlyRead ==
    /\ [](snap.pc \in {"loop", "sleep", "returned"} /\ snap.polls > 0 =>
            /\ req.exists
            /\ snap.writes = 0 => req = NewSnapshotRequest)
    /\ [][req' # req => (snap.pc = "add" \/ snap'.writes = snap.writes + 1)]_vars
    /\ [][(snap.pc = "loop" /\ snap'.pc = "returned") => req' = req]_vars

C22_Witness ==
    /\ SnapshotReturned
    /\ snap.err = "nil"
    /\ snap.label # snap.label0
    /\ req.exists
    /\ req.label = snap.label

-----------------------------------------------------------------------------
(* ServiceState nodes and their shadows *)

EntQuiescent == \A c \in Callers : ent[c].pc \in {"idle", "done"}
EntPartial == \E c \in Callers : ent[c].partial
EntStepped(c) == ent'[c] # ent[c]

\* C23 as stated: in every reachable state a ServiceState node exists if and
\* only if the HostServiceState node with the same identifier exists.
C23_ShadowIffAlways ==
    \A s \in ServiceIds, x \in StateIds, h \in HostIds :
        zk[ServiceStatePath(s, x)].exists <=> zk[HostServiceStatePath(h, x)].exists

\* C23 (amended): when no AddServiceState or RemoveServiceState call is in
\* progress and none has failed between its two store writes, a ServiceState
\* node exists if and only if its HostServiceState shadow exists; a call that
\* returns nil has created both nodes (AddServiceState) or deleted both
\* (RemoveServiceState).
C23_ShadowIffAtRest ==
    /\ (EntQuiescent /\ ~EntPartial) =>
          \A s \in ServiceIds, x \in StateIds, h \in HostIds :
              zk[ServiceStatePath(s, x)].exists <=> zk[HostServiceStatePath(h, x)].exists
    /\ \A c \in Callers :
          (ent[c].pc = "done" /\ ent[c].err = "nil") =>
              /\ ent[c].fn = "AddServiceState" => ent[c].made1 /\ ent[c].made2
              /\ ent[c].fn = "RemoveServiceState" => ent[c].gone1 /\ ent[c].gone2

C23_Witness ==
    /\ EntQuiescent /\ ~EntPartial
    /\ \E c \in Callers :
          /\ ent[c].fn = "AddServiceState" /\ ent[c].err = "nil" /\ ent[c].pc = "done"
          /\ zk[ServiceStatePath(ent[c].state.ServiceId, ent[c].state.Id)].exists
          /\ zk[HostServiceStatePath(ent[c].state.HostId, ent[c].state.Id)].exists
    /\ \E c \in Callers :
          ent[c].fn = "RemoveServiceState" /\ ent[c].err = "nil" /\ ent[c].pc = "done"

\* C24: in AddServiceState a failed primary create returns the error and
\* creates no shadow; a failed shadow create after a successful primary
\* create returns the error and leaves the primary node as it is.
C24_AddServiceStateFailures ==
    /\ [](\A c \in Callers : ent[c].fn = "AddServiceState" =>
            /\ ent[c].made2 => ent[c].made1
            /\ (ent[c].pc = "done" /\ ~(ent[c].made1 /\ ent[c].made2)) => ent[c].err # "nil"
            /\ ent[c].pc = "add2" => ent[c].made1)
    /\ [][\A c \in Callers :
            (ent[c].pc = "add1" /\ EntStepped(c) /\ ~ent'[c].made1) =>
                /\ ent'[c].pc = "done" /\ ent'[c].err # "nil"
                /\ zk' = zk]_vars
    /\ [][\A c \in Callers :
            (ent[c].pc = "add2" /\ EntStepped(c) /\ ~ent'[c].made2) =>
                /\ ent'[c].pc = "done" /\ ent'[c].err # "nil"
                /\ zk' = zk]_vars

C24_Witness ==
    \E c \in Callers :
        /\ ent[c].fn = "AddServiceState" /\ ent[c].pc = "done"
        /\ ent[c].made1 /\ ~ent[c].made2 /\ ent[c].err # "nil"
        /\ zk[ServiceStatePath(ent[c].state.ServiceId, ent[c].state.Id)].exists
        /\ EntCalls = 1

\* C25: RemoveServiceState deletes the primary with the version it loaded and
\* the shadow with the version it read; a failed primary delete deletes
\* nothing; a failed read or delete of the shadow after the primary delete
\* returns an error and does not recreate the primary.
C25_RemoveServiceStateFailures ==
    /\ [](\A c \in Callers : ent[c].fn = "RemoveServiceState" =>
            /\ ent[c].gone2 => ent[c].gone1
            /\ (ent[c].pc = "done" /\ ~(ent[c].gone1 /\ ent[c].gone2)) => ent[c].err # "nil")
    /\ [][\A c \in Callers :
            LET p == ServiceStatePath(ent[c].state.ServiceId, ent[c].state.Id)
                q == HostServiceStatePath(ent[c].hostId, ent[c].state.Id)
            IN  /\ (ent[c].pc = "rm2" /\ EntStepped(c)) =>
                      IF ent'[c].gone1
                      THEN /\ zk[p].exists /\ zk[p].version = ent[c].version
                           /\ zk' = [zk EXCEPT ![p] = NoNode]
                      ELSE ent'[c].pc = "done" /\ ent'[c].err # "nil" /\ zk' = zk
                /\ (ent[c].pc = "rm3" /\ EntStepped(c)) =>
                      /\ zk' = zk
                      /\ ent'[c].pc = "rm4" => /\ zk[q].exists
                                               /\ ent'[c].version = zk[q].version
                      /\ ent'[c].pc # "rm4" => ent'[c].pc = "done" /\ ent'[c].err # "nil"
                /\ (ent[c].pc = "rm4" /\ EntStepped(c)) =>
                      IF ent'[c].gone2
                      THEN /\ zk[q].exists /\ zk[q].version = ent[c].version
                           /\ zk' = [zk EXCEPT ![q] = NoNode]
                      ELSE ent'[c].pc = "done" /\ ent'[c].err # "nil" /\ zk' = zk]_vars

C25_Witness ==
    \E c \in Callers :
        /\ ent[c].fn = "RemoveServiceState" /\ ent[c].pc = "done"
        /\ ent[c].gone1 /\ ~ent[c].gone2 /\ ent[c].err # "nil"
        /\ ~zk[ServiceStatePath(ent[c].state.ServiceId, ent[c].state.Id)].exists
        /\ zk[HostServiceStatePath(ent[c].hostId, ent[c].state.Id)].exists
        /\ EntCalls = 1

-----------------------------------------------------------------------------
(* The snapshot-state node *)

SnodeWrote ==
    /\ snode.fn \in {"AddSnapshotState", "UpdateSnapshotState"}
    /\ snode.pc = "done" /\ snode.err = "nil"

\* C26: after AddSnapshotState(s) or UpdateSnapshotState(s) returns nil with
\* no other writer, the node holds s and GetSnapshotState returns s; a node
\* that was absent has been created, a node that was present has been
\* overwritten by a Set with the version read just before.
C26_GetReturnsWhatWasWritten ==
    /\ []((SnodeWrote /\ snode.quiet) =>
            /\ snode.node.exists
            /\ UnmarshalStringOk(snode.node.data)
            /\ UnmarshalString(snode.node.data) = snode.s
            /\ snode.via = IF snode.existed THEN "set" ELSE "create")
    /\ []((snode.fn = "GetSnapshotState" /\ snode.pc = "done"
              /\ snode.lastOk /\ snode.quiet) =>
            /\ snode.err = snode.seen
            /\ snode.err = "nil" => snode.out = snode.last)
    /\ [][(snode'.via = "set" /\ snode.via # "set") =>
            /\ snode.node.exists
            /\ snode.node.version = snode.version
            /\ snode'.node.version = snode.node.version + 1]_vars

C26_Witness ==
    /\ snode.fn = "GetSnapshotState" /\ snode.pc = "done" /\ snode.err = "nil"
    /\ snode.lastOk /\ snode.quiet
    /\ snode.existed /\ snode.via = "set"
    /\ snode.out = <<"\"">> /\ snode.last = snode.out

\* C27 as stated: a store error other than not-found that a store call
\* returns inside an entity operation ends the operation and is its result.
C27_StoreErrorsReturned ==
    snode.seen # "nil" => (snode.pc = "done" /\ snode.err = snode.seen)

-----------------------------------------------------------------------------
(* Shutdown in the Ready barrier; readiness and the children watch *)

InReadySelect == pc = "ready" /\ Len(rstack) > 0 /\ Top.at = "select"

\* C28: when the select of the Ready barrier, blocked on the watch of a
\* missing node's parent, takes the shutdown case, Ready returns ErrShutdown
\* (which is not ErrTimeout), Listen sends that error on the ready channel
\* without closing it and returns, and no worker has been or is spawned.
C28_ShutdownInBarrier ==
    /\ [][(InReadySelect /\ rstack' = <<>>) =>
            /\ shutdown
            /\ readyErr' = ErrShutdown /\ readyErr' # ErrTimeout
            /\ pc' = "fail"]_vars
    /\ [][(pc = "fail" /\ pc' # "fail") =>
            /\ pc' = "returned"
            /\ ready' = [closed |-> FALSE, buf |-> <<readyErr>>]]_vars
    /\ []((obs.exit = "barrier" /\ readyErr = ErrShutdown) =>
            /\ pc \in {"fail", "returned"}
            /\ ~ready.closed
            /\ pc = "returned" => ready.buf = <<ErrShutdown>>
            /\ processing = {} /\ ~obs.listed
            /\ \A k \in Kids : obs.spawns[k] = 0 /\ workers[k].running = 0)

C28_Witness ==
    /\ pc = "returned" /\ obs.exit = "barrier" /\ obs.waited
    /\ shutdown /\ readyErr = ErrShutdown
    /\ ready = [closed |-> FALSE, buf |-> <<ErrShutdown>>]
    /\ ~(Ancestors(ListenPath) \subseteq tree)
    /\ ChildNames(ListenPath) = {}

\* C29 as stated: when the ready channel is closed, a children watch on the
\* listener's path has been registered.
C29_WatchingWhenReady ==
    ready.closed => obs.listed

-----------------------------------------------------------------------------
(* The path functions *)

Unary(fn) == fn \in {"HostPath", "ServicePath"}
SameArgs(fn, a, b, a2, b2) == a = a2 /\ (Unary(fn) \/ b = b2)

\* c is p, a "/" and one name
DirectChild(c, p) ==
    /\ Len(c) > Len(p) + 1
    /\ SubSeq(c, 1, Len(p)) = p
    /\ c[Len(p) + 1] = "/"
    /\ \A i \in (Len(p) + 2)..Len(c) : c[i] # "/"

\* the properties of the path computed from pf.a, pf.b, against the paths of
\* the identifiers of ids
PathsSound(ids) ==
    (pf.at = "done" /\ pf.a \in ids /\ pf.b \in ids) =>
        /\ pf.out = PathOf(pf.fn, pf.a, pf.b)
        /\ \A a2 \in ids, b2 \in ids :
              PathOf(pf.fn, a2, b2) = pf.out => SameArgs(pf.fn, pf.a, pf.b, a2, b2)
        /\ \A a2 \in ids, b2 \in ids :
              /\ ServicePath(a2) # HostPath(pf.a)
              /\ ServicePath(a2) # HostServiceStatePath(pf.a, pf.b)
              /\ ServiceStatePath(a2, b2) # HostPath(pf.a)
              /\ ServiceStatePath(a2, b2) # HostServiceStatePath(pf.a, pf.b)
        /\ pf.fn = "ServiceStatePath" => DirectChild(pf.out, ServicePath(pf.a))
        /\ pf.fn = "HostServiceStatePath" => DirectChild(pf.out, HostPath(pf.a))

\* C30 as stated: over identifiers, each path function gives distinct paths
\* for distinct identifier tuples, no service path is a scheduler path,
\* ServiceStatePath(s, x) is a direct child of ServicePath(s) and
\* HostServiceStatePath(h, x) a direct child of HostPath(h).
C30_PathsCollisionFree == PathsSound(Ids)

\* identifiers that are one path segment
SegmentIds == {i \in Ids : i # <<>> /\ \A k \in 1..Len(i) : i[k] # "/"}

\* what holds: the same over identifiers that are not empty and hold no "/"
C30_PathsCollisionFreeOverSegments == PathsSound(SegmentIds)

-----------------------------------------------------------------------------
(* TerminateHostService *)

Terminating(c) == lau[c].fn = "loadAndUpdateHss" /\ lau[c].mutator = "stop"

\* C32: a step of TerminateHostService changes the store only by its Set,
\* which, made on the version it read, replaces the addressed
\* HostServiceState node by the document read with DesiredState = STOP and
\* leaves every other node as it is; on a missing node, a document that does
\* not unmarshal or a version conflict the store is unchanged and the error
\* is returned.
C32_TerminateTouchesDesiredStateOnly ==
    /\ [][\A c \in Callers :
            (Terminating(c) /\ lau'[c] # lau[c] /\ lau[c].at \in {"get", "set"}) =>
                LET f == lau[c]
                    n == zk[f.path]
                IN  IF f.at = "set" /\ lau'[c].err = "nil"
                    THEN /\ n.exists /\ n.version = f.version
                         /\ zk' = [zk EXCEPT ![f.path] =
                               [exists |-> TRUE,
                                data |-> Marshal([Unmarshal(n.data) EXCEPT
                                                     !.DesiredState = SVC_STOP]),
                                version |-> n.version + 1]]
                    ELSE /\ zk' = zk
                         /\ lau'[c].at = "done" => lau'[c].err # "nil"]_vars
    /\ [](\A c \in Callers :
            (Terminating(c) /\ lau[c].at = "done") =>
                /\ lau[c].gets = 1 /\ lau[c].sets <= 1
                /\ lau[c].err \in {"nil", "ErrNoNode", "ErrUnmarshal", "ErrBadVersion"}
                /\ lau[c].err \in {"ErrNoNode", "ErrUnmarshal"} => lau[c].sets = 0)

C32_Witness ==
    \E c \in Callers, h \in HostIds, s \in ServiceIds, x \in StateIds :
        /\ Terminating(c) /\ lau[c].at = "done" /\ lau[c].err = "nil"
        /\ lau[c].path = HostServiceStatePath(h, x)
        /\ lau[c].read = Marshal(HostServiceState(h, s, x, SVC_RUN))
        /\ zk[lau[c].path].data = Marshal(HostServiceState(h, s, x, SVC_STOP))
        /\ zk[ServiceStatePath(s, x)].exists
        /\ zk[ServicePath(s)].exists
        /\ UnmarshalOk(zk[ServicePath(s)].data)
        /\ Unmarshal(zk[ServicePath(s)].data).DesiredState = SVC_RUN

-----------------------------------------------------------------------------
(* The Listen loop and its workers *)

InLoop == pc \in {"list", "select"}
Present(k) == k \in ChildNames(ListenPath)
HasWorker(k) == workers[k].running > 0

\* C33: the completion of a worker received in the loop untracks its child
\* and leads to a new listing; a listing that succeeds leaves every present
\* child tracked, with a new worker started for each one that was not; a
\* child present under the path is not left without a worker for ever while
\* the listener stays in its loop.
C33_WorkerRespawned ==
    /\ [][\A k \in Kids :
            (pc = "select" /\ workers'[k].sending < workers[k].sending) =>
                (k \notin processing' /\ pc' = "list")]_vars
    /\ [][(pc = "list" /\ pc' = "select") =>
            \A k \in Kids : Present(k) =>
                /\ k \in processing'
                /\ k \notin processing =>
                      (workers'[k].running = workers[k].running + 1 /\ ~ishutdown)]_vars
    /\ \A k \in Kids :
          (InLoop /\ Present(k) /\ ~HasWorker(k)) ~> (HasWorker(k) \/ ~Present(k) \/ ~InLoop)

C33_Witness ==
    /\ pc = "select" /\ ~ishutdown /\ ~shutdown
    /\ ~obs.kidsChanged
    /\ \E k \in Kids :
          /\ Present(k) /\ k \in processing
          /\ HasWorker(k) /\ workers[k].sending = 0
          /\ obs.spawns[k] = 2

\* the children whose worker has been started and whose completion the loop
\* has not received
Outstanding == {k \in Kids : workers[k].running + workers[k].sending > 0}

\* C34: in the loop (and in the drain after it) the tracked set is the set of
\* children with a worker started and its completion not yet received; a
\* child leaves the set only by the receipt of its worker's completion,
\* whether it is still in the store or not; the per-worker shutdown channel
\* is closed only by the deferred function.
C34_TrackedIsOutstanding ==
    /\ [](processing = Outstanding)
    /\ [](\A k \in Kids : workers[k].running + workers[k].sending <= 1)
    /\ [][\A k \in processing \ processing' :
            /\ pc \in {"select", "drain"}
            /\ workers'[k].sending = workers[k].sending - 1
            /\ tree' = tree]_vars
    /\ [][ishutdown' # ishutdown => (pc = "defer" /\ ishutdown')]_vars
    /\ [][\A k \in Kids :
            (workers'[k].running < workers[k].running /\ ~ishutdown) =>
                (pc' = pc /\ processing' = processing)]_vars

C34_Witness ==
    /\ pc = "select" /\ ~ishutdown /\ obs.listed
    /\ \E k \in Kids :
          /\ ~Present(k)
          /\ k \in processing
          /\ workers[k].running = 1
          /\ obs.event = "changed"

\* C35: with workers that return once _shutdown is closed, Listen returns
\* after it has left its loop (shutdown, ChildrenW error, deletion of the
\* watched node) and after the external shutdown is signalled to its loop;
\* in the drain every tracked child has a worker that is offering its
\* completion or has been told to stop, so the loop and a finished worker
\* never wait for each other.
C35_ListenReturns ==
    /\ [](pc = "drain" =>
            \A k \in processing :
                workers[k].sending > 0 \/ (workers[k].running > 0 /\ ishutdown))
    /\ [](pc = "returned" /\ obs.listed =>
            \A k \in Kids : workers[k].sending = 0 /\ workers[k].running = 0)
    /\ ((pc \in {"defer", "drain"} \/ (InLoop /\ shutdown)) ~> pc = "returned")

C35_Witness ==
    /\ pc = "returned" /\ obs.listed /\ obs.early
    /\ obs.exit = "deleted"
    /\ \A k \in Kids : obs.spawns[k] >= 1
    /\ processing = {}

-----------------------------------------------------------------------------
(* Properties of Start without a master and of failing dependents           *)
(* (SpecStart, SpecStartFair)                                                *)

NilMaster == ~start.master /\ start.pc # "go"

\* C36: when Start is called with a nil master nothing is ever sent on the
\* ready channel and it is never closed, so Start's first select never takes
\* the readiness case and no dependent listener is ever launched; Start stays
\* in its selects until the external shutdown is signalled, returns only
\* after it, and does return once it is signalled.
C36_NilMasterWaitsForShutdown ==
    /\ [](NilMaster => /\ lis[Master].ready = IdleListener.ready
                       /\ sobs.case1 \in {"none", "shutdown"}
                       /\ NoneLaunched)
    /\ [](NilMaster /\ ~start.shutdown => start.pc = "select1")
    /\ [](NilMaster /\ start.pc = "returned" => sobs.trigger = "shutdown")
    /\ ((NilMaster /\ start.shutdown) ~> start.pc = "returned")

C36_Witness ==
    /\ NilMaster
    /\ start.listeners = MaxListeners
    /\ start.pc = "returned"
    /\ sobs.case1 = "shutdown"
    /\ sobs.trigger = "shutdown"
    /\ NoneLaunched

\* a dependent whose startup failed or whose Listen returned on its own,
\* the broadcast channel still open
LeftOnItsOwn(d) == ListenReturned(d) /\ ~start._shutdown

\* C37: a step of a launched dependent listener (its startup failing, its
\* loop ending, its goroutine ending) changes neither the master nor another
\* dependent nor Start's position, done or broadcast channel, only the wait
\* group; Start passes its second select only when the master's goroutine
\* has ended or the external shutdown is signalled, and a listener leaves
\* its barrier or loop on the broadcast only after that.
C37_DependentFailureIsLocal ==
    /\ [][\A d \in Dependents :
            (Launched(d) /\ lis'[d] # lis[d]) =>
                /\ \A l \in Listeners \ {d} : lis'[l] = lis[l]
                /\ start'.pc = start.pc
                /\ start'.done = start.done
                /\ start'._shutdown = start._shutdown
                /\ start'.shutdown = start.shutdown
                /\ sobs' = sobs]_vars
    /\ [](start.pc \in {"close", "wait", "returned"} =>
            \/ sobs.trigger = "done" /\ start.done /\ Exited(Master)
            \/ sobs.trigger = "shutdown" /\ start.shutdown)
    /\ [](start._shutdown => start.pc \in {"wait", "returned"})

C37_Witness ==
    /\ start.pc = "select2"
    /\ lis[Master].pc = "loop"
    /\ lis[1].failed /\ Exited(1) /\ LeftOnItsOwn(1)
    /\ lis[2].pc = "loop"
    /\ ~start.shutdown

-----------------------------------------------------------------------------
(* The order of the poll's switch (SpecSnap) *)

BothSet == req.error # "" /\ req.label # ""

\* C38: a poll that loads a request carrying both a non-empty SnapshotError
\* and a non-empty SnapshotLabel ends the call with that error and leaves
\* the caller's label as it was; a call that has returned from such a poll
\* holds the request's error and the label it was called with.
C38_ErrorBeforeLabel ==
    /\ [][(snap.pc = "loop" /\ snap'.polls = snap.polls + 1 /\ ~snap'.failedLoad
             /\ BothSet) =>
                /\ snap'.pc = "returned"
                /\ snap'.err = req.error
                /\ snap'.label = snap.label0]_vars
    /\ []((SnapshotReturned /\ RequestServed /\ snap.polled /\ BothSet) =>
            (snap.err = req.error /\ snap.label = snap.label0))

C38_Witness ==
    /\ SnapshotReturned
    /\ RequestServed
    /\ snap.polled
    /\ BothSet
    /\ req.label # snap.label0
    /\ snap.err = req.error
    /\ snap.label = snap.label0

-----------------------------------------------------------------------------
(* Properties of ZkDao.UpdateServiceState and UpdateService (SpecUpdate) *)

UpdDone(c) == ent[c].pc = "done"
UpdSetReturned(c) == UpdDone(c) /\ ent[c].via = "set"

\* C40: a Set of UpdateServiceState or UpdateService that succeeds leaves
\* the node holding the caller's whole entity, one version after the
\* version the call's own Get read.  A change made to the node after the
\* caller obtained its copy and before the call's Get does not make the call
\* fail: unless a write lands between the call's Get and its Set (or the
\* connection fails) the Set succeeds and the change is overwritten.  The
\* version conflict is returned exactly when a write landed between the
\* call's Get and its Set.
C40_LostUpdateWithoutConflict ==
    /\ [][\A c \in Callers :
            (ent[c].pc = "set" /\ ent'[c].pc = "done" /\ ent'[c].err = "nil") =>
                /\ zk'[ent[c].path].data = Marshal(ent[c].entity)
                /\ zk'[ent[c].path].version = ent[c].version + 1]_vars
    /\ [](\A c \in Callers :
            (UpdSetReturned(c) /\ ~ent[c].crossed /\ ent[c].err # "ErrConn") =>
                ent[c].err = "nil")
    /\ [](\A c \in Callers :
            (UpdDone(c) /\ ent[c].err = "ErrBadVersion") =>
                (ent[c].via = "set" /\ ent[c].crossed))
    /\ [](\A c \in Callers :
            (UpdSetReturned(c) /\ ent[c].crossed) => ent[c].err # "nil")

\* a call that returned nil although the node had changed since the caller
\* obtained its copy: the other writer's content is gone
C40_Witness ==
    \E c \in Callers :
        /\ UpdSetReturned(c)
        /\ ent[c].err = "nil"
        /\ ent[c].stale
        /\ ~ent[c].crossed
        /\ ent[c].basis.exists
        /\ ent[c].overwrote # ent[c].basis.data
        /\ ent[c].overwrote # Marshal(ent[c].entity)
        /\ zk[ent[c].path].data = Marshal(ent[c].entity)

====
